---- MODULE Spec2Model ----
(***************************************************************************)
(* Model of the validation and debug engines of the Tealium data layer     *)
(* server: validateDataLayer (tools/validate.ts) with its three            *)
(* collaborators (validators/schema.ts, validators/tealium-rules.ts,       *)
(* validators/naming.ts), the type guards (types/guards.ts) and            *)
(* debugDataLayer with its checks (tools/debug).                           *)
(*                                                                         *)
(* Representation.  A JavaScript string that the program takes apart or    *)
(* puts together (document keys and string values, paths, schema ids) is   *)
(* a sequence of one-character strings.  A JavaScript value is a record    *)
(* tagged by t; an object is the sequence of its entries in Object.entries *)
(* order.  A template literal is a Text: the literal with %s for each      *)
(* interpolation, and the interpolated strings.                            *)
(***************************************************************************)
EXTENDS Integers, Sequences, FiniteSets, TLC

VARIABLES
    pc,              \* "ready" | "validated" | "debugged"
    op,              \* the entry point this call goes to: "validate" | "debug"
    dataLayer,       \* args.dataLayer
    schemaUri,       \* args.schemaUri
    strictMode,      \* args.strictMode
    checkPoints,     \* args.checkPoints
    now,             \* the clock read by new Date() in checkBookingFunnel
    schemaResult,    \* validate.ts: const schemaResult
    tealiumResult,   \* validate.ts: const tealiumResult
    namingWarnings,  \* validate.ts: const namingWarnings
    result,          \* the ValidationResult returned
    debugResult,     \* the DebugResult returned
    guardResult,     \* what every type guard returned for the value
    previous         \* what the call before this one returned

vars == <<pc, op, dataLayer, schemaUri, strictMode, checkPoints, now,
          schemaResult, tealiumResult, namingWarnings, result, debugResult,
          guardResult, previous>>

----------------------------------------------------------------------------
(* Characters and strings *)

LowerSeq == <<"a","b","c","d","e","f","g","h","i","j","k","l","m",
              "n","o","p","q","r","s","t","u","v","w","x","y","z">>
UpperSeq == <<"A","B","C","D","E","F","G","H","I","J","K","L","M",
              "N","O","P","Q","R","S","T","U","V","W","X","Y","Z">>
DigitSeq == <<"0","1","2","3","4","5","6","7","8","9">>

LowerSet == {LowerSeq[i] : i \in DOMAIN LowerSeq}
UpperSet == {UpperSeq[i] : i \in DOMAIN UpperSeq}
DigitSet == {DigitSeq[i] : i \in DOMAIN DigitSeq}
AlphaSet == LowerSet \cup UpperSet
AlnumSet == AlphaSet \cup DigitSet
\* \w of a JavaScript regular expression
WordSet == AlnumSet \cup {"_"}
\* \s of a JavaScript regular expression (the members that can occur here)
SpaceSet == {" ", "\t", "\n", "\r"}

IndexOf(c, seq) == CHOOSE i \in DOMAIN seq : seq[i] = c

CharToUpper(c) == IF c \in LowerSet THEN UpperSeq[IndexOf(c, LowerSeq)] ELSE c
CharToLower(c) == IF c \in UpperSet THEN LowerSeq[IndexOf(c, UpperSeq)] ELSE c

\* String.prototype.toUpperCase / toLowerCase
ToUpperCase(s) == [i \in 1..Len(s) |-> CharToUpper(s[i])]
ToLowerCase(s) == [i \in 1..Len(s) |-> CharToLower(s[i])]

AllIn(s, set) == \A i \in 1..Len(s) : s[i] \in set

\* s[a..b], empty when b < a
Slice(s, a, b) == IF b < a THEN <<>> ELSE SubSeq(s, a, b)

\* Array.prototype.includes on an array of strings
Includes(arr, s) == \E i \in 1..Len(arr) : arr[i] = s

\* the value of a decimal digit character
DigitVal(c) == IndexOf(c, DigitSeq) - 1

RECURSIVE DigitsOf(_)
\* the decimal digits of a natural number
DigitsOf(n) == IF n < 10 THEN <<DigitSeq[n + 1]>>
               ELSE DigitsOf(n \div 10) \o <<DigitSeq[(n % 10) + 1]>>

RECURSIVE NatOf(_)
\* the natural number written by a non-empty sequence of digits
NatOf(ds) == IF Len(ds) = 0 THEN 0
             ELSE 10 * NatOf(SubSeq(ds, 1, Len(ds) - 1)) + DigitVal(ds[Len(ds)])

\* a template literal: fmt holds %s for each interpolation, args what was interpolated
Text(fmt, args) == [fmt |-> fmt, args |-> args]
Lit(fmt) == Text(fmt, <<>>)

----------------------------------------------------------------------------
(* JavaScript values *)

Undefined == [t |-> "undefined"]
Null      == [t |-> "null"]
Bool(b)   == [t |-> "boolean", b |-> b]
\* a number is an integer here, or NaN
Num(n)    == [t |-> "number", n |-> n]
Str(s)    == [t |-> "string", s |-> s]
Arr(a)    == [t |-> "array", a |-> a]
\* e is the sequence of <<key, value>> entries, keys distinct
Obj(e)    == [t |-> "object", e |-> e]

NaN == [t |-> "number", nan |-> TRUE]
IsNaN(v) == "nan" \in DOMAIN v

\* obj[key]: the value of the property, undefined when the object has none
Get(obj, key) ==
    IF \E i \in 1..Len(obj.e) : obj.e[i][1] = key
    THEN obj.e[CHOOSE i \in 1..Len(obj.e) : obj.e[i][1] = key][2]
    ELSE Undefined

----------------------------------------------------------------------------
(* String literals of the source, as character sequences *)

S == [
    page |-> <<"p","a","g","e">>,
    pageName |-> <<"p","a","g","e","N","a","m","e">>,
    pageType |-> <<"p","a","g","e","T","y","p","e">>,
    pageCategory |-> <<"p","a","g","e","C","a","t","e","g","o","r","y">>,
    pageSubcategory |-> <<"p","a","g","e","S","u","b","c","a","t","e","g","o","r","y">>,
    language |-> <<"l","a","n","g","u","a","g","e">>,
    country |-> <<"c","o","u","n","t","r","y">>,
    currency |-> <<"c","u","r","r","e","n","c","y">>,
    user |-> <<"u","s","e","r">>,
    userId |-> <<"u","s","e","r","I","d">>,
    visitorId |-> <<"v","i","s","i","t","o","r","I","d">>,
    userType |-> <<"u","s","e","r","T","y","p","e">>,
    isLoggedIn |-> <<"i","s","L","o","g","g","e","d","I","n">>,
    loyaltyTier |-> <<"l","o","y","a","l","t","y","T","i","e","r">>,
    loyaltyPoints |-> <<"l","o","y","a","l","t","y","P","o","i","n","t","s">>,
    event |-> <<"e","v","e","n","t">>,
    eventName |-> <<"e","v","e","n","t","N","a","m","e">>,
    eventCategory |-> <<"e","v","e","n","t","C","a","t","e","g","o","r","y">>,
    eventAction |-> <<"e","v","e","n","t","A","c","t","i","o","n">>,
    eventLabel |-> <<"e","v","e","n","t","L","a","b","e","l">>,
    eventValue |-> <<"e","v","e","n","t","V","a","l","u","e">>,
    product |-> <<"p","r","o","d","u","c","t">>,
    productId |-> <<"p","r","o","d","u","c","t","I","d">>,
    productName |-> <<"p","r","o","d","u","c","t","N","a","m","e">>,
    productCategory |-> <<"p","r","o","d","u","c","t","C","a","t","e","g","o","r","y">>,
    productBrand |-> <<"p","r","o","d","u","c","t","B","r","a","n","d">>,
    productPrice |-> <<"p","r","o","d","u","c","t","P","r","i","c","e">>,
    productQuantity |-> <<"p","r","o","d","u","c","t","Q","u","a","n","t","i","t","y">>,
    productVariant |-> <<"p","r","o","d","u","c","t","V","a","r","i","a","n","t">>,
    productSku |-> <<"p","r","o","d","u","c","t","S","k","u">>,
    products |-> <<"p","r","o","d","u","c","t","s">>,
    transaction |-> <<"t","r","a","n","s","a","c","t","i","o","n">>,
    transactionId |-> <<"t","r","a","n","s","a","c","t","i","o","n","I","d">>,
    transactionTotal |-> <<"t","r","a","n","s","a","c","t","i","o","n","T","o","t","a","l">>,
    transactionTax |-> <<"t","r","a","n","s","a","c","t","i","o","n","T","a","x">>,
    transactionShipping |-> <<"t","r","a","n","s","a","c","t","i","o","n","S","h","i","p","p","i","n","g">>,
    transactionCurrency |-> <<"t","r","a","n","s","a","c","t","i","o","n","C","u","r","r","e","n","c","y">>,
    transactionPaymentMethod |-> <<"t","r","a","n","s","a","c","t","i","o","n","P","a","y","m","e","n","t","M","e","t","h","o","d">>,
    search |-> <<"s","e","a","r","c","h">>,
    searchDestination |-> <<"s","e","a","r","c","h","D","e","s","t","i","n","a","t","i","o","n">>,
    searchCheckIn |-> <<"s","e","a","r","c","h","C","h","e","c","k","I","n">>,
    searchCheckOut |-> <<"s","e","a","r","c","h","C","h","e","c","k","O","u","t">>,
    searchAdults |-> <<"s","e","a","r","c","h","A","d","u","l","t","s">>,
    searchChildren |-> <<"s","e","a","r","c","h","C","h","i","l","d","r","e","n">>,
    searchRooms |-> <<"s","e","a","r","c","h","R","o","o","m","s">>,
    searchFlexibleDates |-> <<"s","e","a","r","c","h","F","l","e","x","i","b","l","e","D","a","t","e","s">>,
    hotel |-> <<"h","o","t","e","l">>,
    hotelCode |-> <<"h","o","t","e","l","C","o","d","e">>,
    hotelName |-> <<"h","o","t","e","l","N","a","m","e">>,
    hotelBrand |-> <<"h","o","t","e","l","B","r","a","n","d">>,
    hotelCity |-> <<"h","o","t","e","l","C","i","t","y">>,
    hotelCountry |-> <<"h","o","t","e","l","C","o","u","n","t","r","y">>,
    hotelStarRating |-> <<"h","o","t","e","l","S","t","a","r","R","a","t","i","n","g">>,
    hotelCategory |-> <<"h","o","t","e","l","C","a","t","e","g","o","r","y">>,
    room |-> <<"r","o","o","m">>,
    roomType |-> <<"r","o","o","m","T","y","p","e">>,
    roomCode |-> <<"r","o","o","m","C","o","d","e">>,
    roomName |-> <<"r","o","o","m","N","a","m","e">>,
    roomCapacity |-> <<"r","o","o","m","C","a","p","a","c","i","t","y">>,
    roomAmenities |-> <<"r","o","o","m","A","m","e","n","i","t","i","e","s">>,
    booking |-> <<"b","o","o","k","i","n","g">>,
    bookingId |-> <<"b","o","o","k","i","n","g","I","d">>,
    bookingStatus |-> <<"b","o","o","k","i","n","g","S","t","a","t","u","s">>,
    bookingCheckIn |-> <<"b","o","o","k","i","n","g","C","h","e","c","k","I","n">>,
    bookingCheckOut |-> <<"b","o","o","k","i","n","g","C","h","e","c","k","O","u","t">>,
    bookingNights |-> <<"b","o","o","k","i","n","g","N","i","g","h","t","s">>,
    bookingAdults |-> <<"b","o","o","k","i","n","g","A","d","u","l","t","s">>,
    bookingChildren |-> <<"b","o","o","k","i","n","g","C","h","i","l","d","r","e","n">>,
    bookingRooms |-> <<"b","o","o","k","i","n","g","R","o","o","m","s">>,
    bookingRateCode |-> <<"b","o","o","k","i","n","g","R","a","t","e","C","o","d","e">>,
    bookingRateName |-> <<"b","o","o","k","i","n","g","R","a","t","e","N","a","m","e">>,
    bookingTotal |-> <<"b","o","o","k","i","n","g","T","o","t","a","l">>,
    bookingCurrency |-> <<"b","o","o","k","i","n","g","C","u","r","r","e","n","c","y">>,
    bookingTaxes |-> <<"b","o","o","k","i","n","g","T","a","x","e","s">>,
    bookingFees |-> <<"b","o","o","k","i","n","g","F","e","e","s">>,
    guest |-> <<"g","u","e","s","t">>,
    guestType |-> <<"g","u","e","s","t","T","y","p","e">>,
    guestLoyaltyId |-> <<"g","u","e","s","t","L","o","y","a","l","t","y","I","d">>,
    guestLoyaltyTier |-> <<"g","u","e","s","t","L","o","y","a","l","t","y","T","i","e","r">>,
    guestLoyaltyPoints |-> <<"g","u","e","s","t","L","o","y","a","l","t","y","P","o","i","n","t","s">>,
    guestPreferences |-> <<"g","u","e","s","t","P","r","e","f","e","r","e","n","c","e","s">>,
    registered |-> <<"r","e","g","i","s","t","e","r","e","d">>,
    premium |-> <<"p","r","e","m","i","u","m">>,
    resort |-> <<"r","e","s","o","r","t">>,
    city |-> <<"c","i","t","y">>,
    beach |-> <<"b","e","a","c","h">>,
    boutique |-> <<"b","o","u","t","i","q","u","e">>,
    business |-> <<"b","u","s","i","n","e","s","s">>,
    pending |-> <<"p","e","n","d","i","n","g">>,
    confirmed |-> <<"c","o","n","f","i","r","m","e","d">>,
    cancelled |-> <<"c","a","n","c","e","l","l","e","d">>,
    completed |-> <<"c","o","m","p","l","e","t","e","d">>,
    new |-> <<"n","e","w">>,
    returning |-> <<"r","e","t","u","r","n","i","n","g">>,
    loyalty |-> <<"l","o","y","a","l","t","y">>,
    string |-> <<"s","t","r","i","n","g">>,
    number |-> <<"n","u","m","b","e","r">>,
    boolean |-> <<"b","o","o","l","e","a","n">>,
    object |-> <<"o","b","j","e","c","t">>,
    undefined |-> <<"u","n","d","e","f","i","n","e","d">>,
    integer |-> <<"i","n","t","e","g","e","r">>,
    array |-> <<"a","r","r","a","y">>,
    function |-> <<"f","u","n","c","t","i","o","n">>,
    null |-> <<"n","u","l","l">>,
    true |-> <<"t","r","u","e">>,
    false |-> <<"f","a","l","s","e">>,
    id |-> <<"i","d">>,
    date |-> <<"d","a","t","e">>,
    ecommerce |-> <<"e","c","o","m","m","e","r","c","e">>,
    NaN |-> <<"N","a","N">>,
    objectObject |-> <<"[","o","b","j","e","c","t"," ","O","b","j","e","c","t","]">>,
    standardUri |-> <<"t","e","a","l","i","u","m",":","/","/","s","c","h","e","m","a","/","s","t","a","n","d","a","r","d">>,
    ecommerceUri |-> <<"t","e","a","l","i","u","m",":","/","/","s","c","h","e","m","a","/","e","c","o","m","m","e","r","c","e">>,
    hotelsUri |-> <<"t","e","a","l","i","u","m",":","/","/","s","c","h","e","m","a","/","h","o","t","e","l","s">>,
    languagePattern |-> <<"^","[","a","-","z","]","{","2","}","(","-","[","A","-","Z","]","{","2","}",")","?","$">>,
    countryPattern |-> <<"^","[","A","-","Z","]","{","2","}","$">>,
    currencyPattern |-> <<"^","[","A","-","Z","]","{","3","}","$">>
]

Dot == <<".">>

\* typeof value
TypeOf(v) ==
    CASE v.t = "undefined" -> S.undefined
      [] v.t = "boolean"   -> S.boolean
      [] v.t = "number"    -> S.number
      [] v.t = "string"    -> S.string
      [] OTHER             -> S.object

----------------------------------------------------------------------------
(* types/guards.ts *)

isRecord(value) == value.t = "object"
isString(value) == TypeOf(value) = S.string
isArray(value) == value.t = "array"
isNumber(value) == TypeOf(value) = S.number /\ ~IsNaN(value)
isBoolean(value) == TypeOf(value) = S.boolean
isStringArray(value) ==
    /\ isArray(value)
    /\ \A i \in 1..Len(value.a) : TypeOf(value.a[i]) = S.string

\* value[key] !== undefined && typeof value[key] !== type
WrongOptional(value, key, type) ==
    Get(value, key) # Undefined /\ TypeOf(Get(value, key)) # type

isPageData(value) ==
    /\ isRecord(value)
    /\ TypeOf(Get(value, S.pageName)) = S.string

isUserData(value) ==
    /\ isRecord(value)
    /\ ~WrongOptional(value, S.userId, S.string)
    /\ ~WrongOptional(value, S.visitorId, S.string)
    /\ ~WrongOptional(value, S.userType, S.string)
    /\ ~WrongOptional(value, S.isLoggedIn, S.boolean)
    /\ ~WrongOptional(value, S.loyaltyTier, S.string)
    /\ ~WrongOptional(value, S.loyaltyPoints, S.number)

isEventData(value) ==
    /\ isRecord(value)
    /\ TypeOf(Get(value, S.eventName)) = S.string

isProductData(value) ==
    /\ isRecord(value)
    /\ TypeOf(Get(value, S.productId)) = S.string
    /\ TypeOf(Get(value, S.productName)) = S.string

isProductDataArray(value) ==
    /\ isArray(value)
    /\ \A i \in 1..Len(value.a) : isProductData(value.a[i])

isTransactionData(value) ==
    /\ isRecord(value)
    /\ TypeOf(Get(value, S.transactionId)) = S.string
    /\ TypeOf(Get(value, S.transactionTotal)) = S.number

isHotelSearchData(value) ==
    /\ isRecord(value)
    /\ ~WrongOptional(value, S.searchDestination, S.string)
    /\ ~WrongOptional(value, S.searchCheckIn, S.string)
    /\ ~WrongOptional(value, S.searchCheckOut, S.string)
    /\ ~WrongOptional(value, S.searchAdults, S.number)
    /\ ~WrongOptional(value, S.searchChildren, S.number)
    /\ ~WrongOptional(value, S.searchRooms, S.number)
    /\ ~WrongOptional(value, S.searchFlexibleDates, S.boolean)

isHotelData(value) ==
    /\ isRecord(value)
    /\ TypeOf(Get(value, S.hotelCode)) = S.string
    /\ TypeOf(Get(value, S.hotelName)) = S.string

isRoomData(value) ==
    /\ isRecord(value)
    /\ TypeOf(Get(value, S.roomType)) = S.string

isBookingData(value) ==
    /\ isRecord(value)
    /\ TypeOf(Get(value, S.bookingCheckIn)) = S.string
    /\ TypeOf(Get(value, S.bookingCheckOut)) = S.string
    /\ TypeOf(Get(value, S.bookingNights)) = S.number
    /\ TypeOf(Get(value, S.bookingAdults)) = S.number
    /\ TypeOf(Get(value, S.bookingRooms)) = S.number
    /\ TypeOf(Get(value, S.bookingTotal)) = S.number
    /\ TypeOf(Get(value, S.bookingCurrency)) = S.string

isGuestData(value) ==
    /\ isRecord(value)
    /\ ~ /\ Get(value, S.guestType) # Undefined
         /\ Get(value, S.guestType) # Str(S.new)
         /\ Get(value, S.guestType) # Str(S.returning)
         /\ Get(value, S.guestType) # Str(S.loyalty)
    /\ ~WrongOptional(value, S.guestLoyaltyId, S.string)
    /\ ~WrongOptional(value, S.guestLoyaltyTier, S.string)
    /\ ~WrongOptional(value, S.guestLoyaltyPoints, S.number)
    /\ ~ /\ Get(value, S.guestPreferences) # Undefined
         /\ ~ /\ isArray(Get(value, S.guestPreferences))
              /\ \A i \in 1..Len(Get(value, S.guestPreferences).a) :
                     isString(Get(value, S.guestPreferences).a[i])

\* dl[key] !== undefined && !guard(dl[key]), for one section of the data layer
isTealiumDataLayer(value) ==
    /\ isRecord(value)
    /\ Get(value, S.page) # Undefined => isPageData(Get(value, S.page))
    /\ Get(value, S.user) # Undefined => isUserData(Get(value, S.user))
    /\ Get(value, S.event) # Undefined => isEventData(Get(value, S.event))
    /\ Get(value, S.product) # Undefined => isProductData(Get(value, S.product))
    /\ Get(value, S.products) # Undefined => isProductDataArray(Get(value, S.products))
    /\ Get(value, S.transaction) # Undefined => isTransactionData(Get(value, S.transaction))
    /\ Get(value, S.search) # Undefined => isHotelSearchData(Get(value, S.search))
    /\ Get(value, S.hotel) # Undefined => isHotelData(Get(value, S.hotel))
    /\ Get(value, S.room) # Undefined => isRoomData(Get(value, S.room))
    /\ Get(value, S.booking) # Undefined => isBookingData(Get(value, S.booking))
    /\ Get(value, S.guest) # Undefined => isGuestData(Get(value, S.guest))

----------------------------------------------------------------------------
(* Regular expressions of the source and of the schemas *)

\* /^[A-Z]{3}$/
TestCurrencyPattern(str) == Len(str) = 3 /\ AllIn(str, UpperSet)

\* /^[A-Z]{2}$/
TestCountryPattern(str) == Len(str) = 2 /\ AllIn(str, UpperSet)

\* /^[a-z]{2}(-[A-Z]{2})?$/
TestLanguagePattern(str) ==
    \/ Len(str) = 2 /\ AllIn(str, LowerSet)
    \/ /\ Len(str) = 5
       /\ AllIn(SubSeq(str, 1, 2), LowerSet)
       /\ str[3] = "-"
       /\ AllIn(SubSeq(str, 4, 5), UpperSet)

\* /^\d{4}-\d{2}-\d{2}$/
TestIsoDatePattern(str) ==
    /\ Len(str) = 10
    /\ AllIn(SubSeq(str, 1, 4), DigitSet)
    /\ str[5] = "-"
    /\ AllIn(SubSeq(str, 6, 7), DigitSet)
    /\ str[8] = "-"
    /\ AllIn(SubSeq(str, 9, 10), DigitSet)

IsLeapYear(y) == (y % 4 = 0 /\ y % 100 # 0) \/ y % 400 = 0

DaysInMonth(y, m) ==
    IF m = 2 THEN (IF IsLeapYear(y) THEN 29 ELSE 28)
    ELSE IF m \in {4, 6, 9, 11} THEN 30 ELSE 31

\* a calendar date written YYYY-MM-DD
IsCalendarDate(str) ==
    /\ TestIsoDatePattern(str)
    /\ NatOf(SubSeq(str, 6, 7)) \in 1..12
    /\ NatOf(SubSeq(str, 9, 10)) \in
           1..DaysInMonth(NatOf(SubSeq(str, 1, 4)), NatOf(SubSeq(str, 6, 7)))

RECURSIVE Join(_, _)
\* Array.prototype.join on an array of strings
Join(arr, sep) ==
    IF Len(arr) = 0 THEN <<>>
    ELSE IF Len(arr) = 1 THEN arr[1]
    ELSE arr[1] \o sep \o Join(Tail(arr), sep)

----------------------------------------------------------------------------
(* resources/schemas.ts: the three schemas.  A schema is a record holding  *)
(* the keywords it states; properties is the sequence of <<name, schema>>. *)

TString == [type |-> S.string]
TNumber == [type |-> S.number]
TBoolean == [type |-> S.boolean]
TStringMin1 == [type |-> S.string, minLength |-> 1]
TNumberMin0 == [type |-> S.number, minimum |-> 0]
TIntegerMin(n) == [type |-> S.integer, minimum |-> n]
TPattern(p) == [type |-> S.string, pattern |-> p]
TEnum(values) == [type |-> S.string, enum |-> values]
TDate == [type |-> S.string, format |-> S.date]
TStringArray == [type |-> S.array, items |-> TString]

standardProperties == <<
    <<S.page, [type |-> S.object,
               properties |-> <<
                   <<S.pageName, TStringMin1>>,
                   <<S.pageType, TString>>,
                   <<S.pageCategory, TString>>,
                   <<S.pageSubcategory, TString>>,
                   <<S.language, TPattern(S.languagePattern)>>,
                   <<S.country, TPattern(S.countryPattern)>>,
                   <<S.currency, TPattern(S.currencyPattern)>> >>,
               required |-> <<S.pageName>>]>>,
    <<S.user, [type |-> S.object,
               properties |-> <<
                   <<S.userId, TString>>,
                   <<S.visitorId, TString>>,
                   <<S.userType, TEnum(<<S.guest, S.registered, S.premium>>)>>,
                   <<S.isLoggedIn, TBoolean>> >>]>>,
    <<S.event, [type |-> S.object,
                properties |-> <<
                    <<S.eventName, TStringMin1>>,
                    <<S.eventCategory, TString>>,
                    <<S.eventAction, TString>>,
                    <<S.eventLabel, TString>>,
                    <<S.eventValue, TNumber>> >>,
                required |-> <<S.eventName>>]>> >>

standardSchema == [id |-> S.standardUri, type |-> S.object,
                   properties |-> standardProperties]

productItemProperties == <<
    <<S.productId, TStringMin1>>,
    <<S.productName, TStringMin1>>,
    <<S.productCategory, TString>>,
    <<S.productBrand, TString>>,
    <<S.productPrice, TNumberMin0>>,
    <<S.productQuantity, TIntegerMin(1)>> >>

ecommerceSchema ==
    [id |-> S.ecommerceUri, type |-> S.object,
     properties |-> standardProperties \o <<
        <<S.product, [type |-> S.object,
                      properties |-> productItemProperties \o <<
                          <<S.productVariant, TString>>,
                          <<S.productSku, TString>> >>,
                      required |-> <<S.productId, S.productName>>]>>,
        <<S.products, [type |-> S.array,
                       items |-> [type |-> S.object,
                                  properties |-> productItemProperties,
                                  required |-> <<S.productId, S.productName>>]]>>,
        <<S.transaction, [type |-> S.object,
                          properties |-> <<
                              <<S.transactionId, TStringMin1>>,
                              <<S.transactionTotal, TNumberMin0>>,
                              <<S.transactionTax, TNumberMin0>>,
                              <<S.transactionShipping, TNumberMin0>>,
                              <<S.transactionCurrency, TPattern(S.currencyPattern)>>,
                              <<S.transactionPaymentMethod, TString>> >>,
                          required |-> <<S.transactionId, S.transactionTotal>>]>> >>]

hotelSchema ==
    [id |-> S.hotelsUri, type |-> S.object,
     properties |-> standardProperties \o <<
        <<S.search, [type |-> S.object,
                     properties |-> <<
                         <<S.searchDestination, TString>>,
                         <<S.searchCheckIn, TDate>>,
                         <<S.searchCheckOut, TDate>>,
                         <<S.searchAdults, TIntegerMin(1)>>,
                         <<S.searchChildren, TIntegerMin(0)>>,
                         <<S.searchRooms, TIntegerMin(1)>>,
                         <<S.searchFlexibleDates, TBoolean>> >>]>>,
        <<S.hotel, [type |-> S.object,
                    properties |-> <<
                        <<S.hotelCode, TStringMin1>>,
                        <<S.hotelName, TStringMin1>>,
                        <<S.hotelBrand, TString>>,
                        <<S.hotelCity, TString>>,
                        <<S.hotelCountry, TPattern(S.countryPattern)>>,
                        <<S.hotelStarRating, [type |-> S.number, minimum |-> 1, maximum |-> 5]>>,
                        <<S.hotelCategory,
                          TEnum(<<S.resort, S.city, S.beach, S.boutique, S.business>>)>> >>,
                    required |-> <<S.hotelCode, S.hotelName>>]>>,
        <<S.room, [type |-> S.object,
                   properties |-> <<
                       <<S.roomType, TStringMin1>>,
                       <<S.roomCode, TString>>,
                       <<S.roomName, TString>>,
                       <<S.roomCapacity, TIntegerMin(1)>>,
                       <<S.roomAmenities, TStringArray>> >>,
                   required |-> <<S.roomType>>]>>,
        <<S.booking, [type |-> S.object,
                      properties |-> <<
                          <<S.bookingId, TString>>,
                          <<S.bookingStatus,
                            TEnum(<<S.pending, S.confirmed, S.cancelled, S.completed>>)>>,
                          <<S.bookingCheckIn, TDate>>,
                          <<S.bookingCheckOut, TDate>>,
                          <<S.bookingNights, TIntegerMin(1)>>,
                          <<S.bookingAdults, TIntegerMin(1)>>,
                          <<S.bookingChildren, TIntegerMin(0)>>,
                          <<S.bookingRooms, TIntegerMin(1)>>,
                          <<S.bookingRateCode, TString>>,
                          <<S.bookingRateName, TString>>,
                          <<S.bookingTotal, TNumberMin0>>,
                          <<S.bookingCurrency, TPattern(S.currencyPattern)>>,
                          <<S.bookingTaxes, TNumberMin0>>,
                          <<S.bookingFees, TNumberMin0>> >>,
                      required |-> <<S.bookingCheckIn, S.bookingCheckOut, S.bookingNights,
                                     S.bookingAdults, S.bookingRooms, S.bookingTotal,
                                     S.bookingCurrency>>]>>,
        <<S.guest, [type |-> S.object,
                    properties |-> <<
                        <<S.guestType, TEnum(<<S.new, S.returning, S.loyalty>>)>>,
                        <<S.guestLoyaltyId, TString>>,
                        <<S.guestLoyaltyTier, TString>>,
                        <<S.guestLoyaltyPoints, TIntegerMin(0)>>,
                        <<S.guestPreferences, TStringArray>> >>]>> >>]

----------------------------------------------------------------------------
(* Conversions to string *)

\* String(n) for a number
NumberToString(v) ==
    IF IsNaN(v) THEN S.NaN
    ELSE IF v.n < 0 THEN <<"-">> \o DigitsOf(0 - v.n)
    ELSE DigitsOf(v.n)

RECURSIVE ToStr(_)
RECURSIVE ToStrItems(_)
\* String(value), the conversion a template literal and RegExp.test apply
ToStr(v) ==
    CASE v.t = "undefined" -> S.undefined
      [] v.t = "null"      -> S.null
      [] v.t = "boolean"   -> IF v.b THEN S.true ELSE S.false
      [] v.t = "number"    -> NumberToString(v)
      [] v.t = "string"    -> v.s
      [] v.t = "array"     -> Join(ToStrItems(v.a), <<",">>)
      [] OTHER             -> S.objectObject
\* the elements of an array as join sees them: null and undefined are empty
ToStrItems(a) ==
    [i \in 1..Len(a) |->
        IF a[i].t \in {"null", "undefined"} THEN <<>> ELSE ToStr(a[i])]

RECURSIVE JsonStringify(_)
RECURSIVE JsonItems(_)
RECURSIVE JsonMembers(_)
\* JSON.stringify(value) for a JSON value
JsonStringify(v) ==
    CASE v.t = "null"    -> S.null
      [] v.t = "boolean" -> IF v.b THEN S.true ELSE S.false
      [] v.t = "number"  -> IF IsNaN(v) THEN S.null ELSE NumberToString(v)
      [] v.t = "string"  -> <<"\"">> \o v.s \o <<"\"">>
      [] v.t = "array"   -> <<"[">> \o Join(JsonItems(v.a), <<",">>) \o <<"]">>
      [] OTHER           -> <<"{">> \o Join(JsonMembers(v.e), <<",">>) \o <<"}">>
JsonItems(a) == [i \in 1..Len(a) |-> JsonStringify(a[i])]
JsonMembers(e) ==
    [i \in 1..Len(e) |-> <<"\"">> \o e[i][1] \o <<"\"", ":">> \o JsonStringify(e[i][2])]

----------------------------------------------------------------------------
(* The JSON-Schema engine behind validators/schema.ts: Ajv, allErrors and  *)
(* verbose set.  AjvErrors is validate.errors for one schema and one value *)

\* the data type check of a "type" keyword
AjvTypeOk(type, data) ==
    CASE type = S.string  -> data.t = "string"
      [] type = S.number  -> data.t = "number" /\ ~IsNaN(data)
      [] type = S.integer -> data.t = "number" /\ ~IsNaN(data)
      [] type = S.boolean -> data.t = "boolean"
      [] type = S.array   -> data.t = "array"
      [] type = S.object  -> data.t = "object"
      [] OTHER            -> FALSE

\* new RegExp(pattern).test(str) for the patterns the schemas state
AjvPatternOk(pattern, str) ==
    CASE pattern = S.languagePattern -> TestLanguagePattern(str)
      [] pattern = S.countryPattern  -> TestCountryPattern(str)
      [] pattern = S.currencyPattern -> TestCurrencyPattern(str)
      [] OTHER                       -> FALSE

\* one entry of validate.errors
ErrorObject(instancePath, keyword, params, data, schema) ==
    [instancePath |-> instancePath, keyword |-> keyword, params |-> params,
     data |-> data, schema |-> schema]

StrArray(strs) == Arr([i \in 1..Len(strs) |-> Str(strs[i])])

RECURSIVE AjvErrors(_, _, _)
RECURSIVE AjvRequired(_, _, _, _)
RECURSIVE AjvProperties(_, _, _, _)
RECURSIVE AjvItems(_, _, _, _)

\* "required": one error per missing property, in the order of the keyword
AjvRequired(schema, data, path, i) ==
    IF i > Len(schema.required) THEN <<>>
    ELSE (IF Get(data, schema.required[i]) = Undefined
          THEN <<ErrorObject(path, "required",
                             [missingProperty |-> schema.required[i]],
                             data, StrArray(schema.required))>>
          ELSE <<>>)
         \o AjvRequired(schema, data, path, i + 1)

\* "properties": each stated property the value has, in the order of the schema
AjvProperties(props, data, path, i) ==
    IF i > Len(props) THEN <<>>
    ELSE (IF Get(data, props[i][1]) # Undefined
          THEN AjvErrors(props[i][2], Get(data, props[i][1]),
                         path \o <<"/">> \o props[i][1])
          ELSE <<>>)
         \o AjvProperties(props, data, path, i + 1)

\* "items": every element of the array
AjvItems(schema, data, path, i) ==
    IF i > Len(data.a) THEN <<>>
    ELSE AjvErrors(schema, data.a[i], path \o <<"/">> \o DigitsOf(i - 1))
         \o AjvItems(schema, data, path, i + 1)

AjvErrors(schema, data, path) ==
    LET has(k) == k \in DOMAIN schema
        typeErrors ==
            IF has("type") /\ ~AjvTypeOk(schema.type, data)
            THEN <<ErrorObject(path, "type", [type |-> schema.type], data,
                               Str(schema.type))>>
            ELSE <<>>
        enumErrors ==
            IF has("enum") /\ ~(data.t = "string" /\ Includes(schema.enum, data.s))
            THEN <<ErrorObject(path, "enum", [allowedValues |-> schema.enum], data,
                               StrArray(schema.enum))>>
            ELSE <<>>
        isNum == data.t = "number" /\ ~IsNaN(data)
        maximumErrors ==
            IF has("maximum") /\ isNum /\ data.n > schema.maximum
            THEN <<ErrorObject(path, "maximum", [limit |-> schema.maximum], data,
                               Num(schema.maximum))>>
            ELSE <<>>
        minimumErrors ==
            IF has("minimum") /\ isNum /\ data.n < schema.minimum
            THEN <<ErrorObject(path, "minimum", [limit |-> schema.minimum], data,
                               Num(schema.minimum))>>
            ELSE <<>>
        isStr == data.t = "string"
        minLengthErrors ==
            IF has("minLength") /\ isStr /\ Len(data.s) < schema.minLength
            THEN <<ErrorObject(path, "minLength", [limit |-> schema.minLength], data,
                               Num(schema.minLength))>>
            ELSE <<>>
        patternErrors ==
            IF has("pattern") /\ isStr /\ ~AjvPatternOk(schema.pattern, data.s)
            THEN <<ErrorObject(path, "pattern", [pattern |-> schema.pattern], data,
                               Str(schema.pattern))>>
            ELSE <<>>
        formatErrors ==
            IF has("format") /\ isStr /\ ~IsCalendarDate(data.s)
            THEN <<ErrorObject(path, "format", [format |-> schema.format], data,
                               Str(schema.format))>>
            ELSE <<>>
        itemsErrors ==
            IF has("items") /\ data.t = "array"
            THEN AjvItems(schema.items, data, path, 1)
            ELSE <<>>
        requiredErrors ==
            IF has("required") /\ data.t = "object"
            THEN AjvRequired(schema, data, path, 1)
            ELSE <<>>
        propertiesErrors ==
            IF has("properties") /\ data.t = "object"
            THEN AjvProperties(schema.properties, data, path, 1)
            ELSE <<>>
    IN  typeErrors \o enumErrors \o maximumErrors \o minimumErrors
        \o minLengthErrors \o patternErrors \o formatErrors
        \o itemsErrors \o requiredErrors \o propertiesErrors

\* ajv.getSchema(schemaUri): the schemas added at load time, undefined otherwise
AjvSchemas == <<standardSchema, ecommerceSchema, hotelSchema>>
HasSchema(uri) == \E i \in 1..Len(AjvSchemas) : AjvSchemas[i].id = uri
GetSchema(uri) == AjvSchemas[CHOOSE i \in 1..Len(AjvSchemas) : AjvSchemas[i].id = uri]

----------------------------------------------------------------------------
(* validators/schema.ts *)

stringifySchema(schema) ==
    IF schema.t = "null" THEN S.null
    ELSE IF schema.t \in {"object", "array"} THEN JsonStringify(schema)
    ELSE IF schema.t \in {"string", "number", "boolean"} THEN ToStr(schema)
    ELSE <<"u","n","k","n","o","w","n">>

formatAjvError(error) ==
    CASE error.keyword = "required" ->
            Text("Missing required property: %s", <<error.params.missingProperty>>)
      [] error.keyword = "type" ->
            Text("Expected %s, got %s", <<error.params.type, TypeOf(error.data)>>)
      [] error.keyword = "enum" ->
            Text("Value must be one of: %s", <<Join(error.params.allowedValues, <<",", " ">>)>>)
      [] error.keyword = "minLength" ->
            Text("String is too short (minimum %s characters)",
                 <<NumberToString(Num(error.params.limit))>>)
      [] error.keyword = "pattern" ->
            Text("Value does not match pattern: %s", <<error.params.pattern>>)
      [] error.keyword = "minimum" ->
            Text("Value must be >= %s", <<NumberToString(Num(error.params.limit))>>)
      [] error.keyword = "maximum" ->
            Text("Value must be <= %s", <<NumberToString(Num(error.params.limit))>>)
      [] OTHER ->
            \* error.message of the engine
            Text("must match format \"%s\"", <<error.params.format>>)

\* the ValidationError made of one entry of validate.errors
SchemaError(error) ==
    [path |-> IF error.instancePath = <<>> THEN <<"/">> ELSE error.instancePath,
     message |-> formatAjvError(error),
     value |-> error.data,
     expected |-> Text("%s", <<stringifySchema(error.schema)>>)]

\* validateAgainstSchema with an unknown uri falling back to the default schema
validateAgainstSchemaFallback(data, uri) ==
    LET ajvErrors == AjvErrors(standardSchema, data, <<>>)
        valid == Len(ajvErrors) = 0
        errors == [i \in 1..Len(ajvErrors) |-> SchemaError(ajvErrors[i])]
    IN  [isValid |-> valid,
         errors |-> errors,
         warnings |-> <<>>,
         suggestions |-> <<>>,
         summary |-> IF valid THEN Lit("Data layer is valid")
                     ELSE Text("Found %s error(s) in data layer", <<DigitsOf(Len(errors))>>)]

validateAgainstSchema(data, uri) ==
    IF ~HasSchema(uri)
    THEN [isValid |-> FALSE,
          errors |-> <<[path |-> <<>>,
                        message |-> Text("Schema not found: %s", <<uri>>),
                        value |-> Str(uri)]>>,
          warnings |-> <<>>,
          suggestions |-> <<Lit("Available schemas: standard, ecommerce, hotels")>>,
          summary |-> Text("Validation failed: Schema \"%s\" not found", <<uri>>)]
    ELSE LET ajvErrors == AjvErrors(GetSchema(uri), data, <<>>)
             valid == Len(ajvErrors) = 0
             errors == [i \in 1..Len(ajvErrors) |-> SchemaError(ajvErrors[i])]
         IN  [isValid |-> valid,
              errors |-> errors,
              warnings |-> <<>>,
              suggestions |-> <<>>,
              summary |-> IF valid THEN Lit("Data layer is valid")
                          ELSE Text("Found %s error(s) in data layer",
                                    <<DigitsOf(Len(errors))>>)]

----------------------------------------------------------------------------
(* validators/naming.ts *)

\* isCamelCase with /^[a-zA-Z][a-zA-Z0-9]*$/
isCamelCaseAnyFirst(str) ==
    /\ Len(str) >= 1
    /\ str[1] \in AlphaSet
    /\ AllIn(Tail(str), AlnumSet)

\* /^[a-z][a-zA-Z0-9]*$/
isCamelCase(str) ==
    /\ Len(str) >= 1
    /\ str[1] \in LowerSet
    /\ AllIn(Tail(str), AlnumSet)

\* the list with one name that is not camelCase in it
KNOWN_PREFIXES_WithCapital == <<<<"P","a","g","e">>, S.user, S.event, S.product, S.transaction,
                                S.search, S.hotel, S.room, S.booking, S.guest>>

KNOWN_PREFIXES == <<S.page, S.user, S.event, S.product, S.transaction,
                    S.search, S.hotel, S.room, S.booking, S.guest>>

RESERVED_WORDS == <<S.undefined, S.null, S.true, S.false, S.function, S.object>>

\* [-_\s]
SeparatorSet == {"-", "_"} \cup SpaceSet
\* what . does not match
LineTerminatorSet == {"\n", "\r"}

\* the length of the run of separators that starts str
RECURSIVE SeparatorRun(_)
SeparatorRun(str) ==
    IF Len(str) > 0 /\ str[1] \in SeparatorSet THEN 1 + SeparatorRun(Tail(str)) ELSE 0

\* str.replace(/[-_\s]+(.)?/g, (_, c) => c !== undefined ? c.toUpperCase() : '')
RECURSIVE ReplaceSeparators(_)
ReplaceSeparators(str) ==
    IF Len(str) = 0 THEN <<>>
    ELSE IF str[1] \in SeparatorSet
    THEN LET k == SeparatorRun(str)
         IN  IF k < Len(str) /\ str[k + 1] \notin LineTerminatorSet
             THEN <<CharToUpper(str[k + 1])>> \o ReplaceSeparators(Slice(str, k + 2, Len(str)))
             ELSE ReplaceSeparators(Slice(str, k + 1, Len(str)))
    ELSE <<str[1]>> \o ReplaceSeparators(Tail(str))

\* str.replace(/^(.)/, (c) => c.toLowerCase())
LowerFirst(str) ==
    IF Len(str) > 0 /\ str[1] \notin LineTerminatorSet
    THEN <<CharToLower(str[1])>> \o Tail(str)
    ELSE str

toCamelCase(str) == LowerFirst(ReplaceSeparators(str))

Warning(path, message, suggestion) ==
    [path |-> path, message |-> message, suggestion |-> suggestion]

\* the warnings of one key, before the recursion into its value
KeyWarnings(key, currentPath) ==
    (IF ~isCamelCase(key) /\ ~Includes(KNOWN_PREFIXES, key)
     THEN <<Warning(currentPath,
                    Text("Variable name \"%s\" is not in camelCase", <<key>>),
                    Text("Consider renaming to \"%s\"", <<toCamelCase(key)>>))>>
     ELSE <<>>)
    \o
    (IF Includes(RESERVED_WORDS, ToLowerCase(key))
     THEN <<Warning(currentPath,
                    Text("\"%s\" is a reserved word and should not be used as a variable name",
                         <<key>>),
                    Lit("Use a more descriptive name"))>>
     ELSE <<>>)
    \o
    (IF Len(key) = 1
     THEN <<Warning(currentPath,
                    Text("Variable name \"%s\" is too short", <<key>>),
                    Lit("Use a more descriptive name"))>>
     ELSE <<>>)
    \o
    (IF Len(key) <= 3 /\ key = ToUpperCase(key) /\ key # S.id
     THEN <<Warning(currentPath,
                    Text("Variable name \"%s\" appears to be an abbreviation", <<key>>),
                    Lit("Use full words for better clarity"))>>
     ELSE <<>>)

\* path !== '' ? `${path}.${key}` : key
CurrentPath(path, key) == IF path # <<>> THEN path \o Dot \o key ELSE key

RECURSIVE checkNamingConventions(_, _)
RECURSIVE NamingEntries(_, _, _)
\* the loop over Object.entries(dataLayer), from entry i on
NamingEntries(entries, path, i) ==
    IF i > Len(entries) THEN <<>>
    ELSE LET key == entries[i][1]
             value == entries[i][2]
             currentPath == CurrentPath(path, key)
         IN  KeyWarnings(key, currentPath)
             \o (IF isRecord(value) THEN checkNamingConventions(value, currentPath) ELSE <<>>)
             \o NamingEntries(entries, path, i + 1)

checkNamingConventions(dl, path) == NamingEntries(dl.e, path, 1)

----------------------------------------------------------------------------
(* Dates and numbers of the JavaScript runtime *)

\* Date.prototype.getTime counts milliseconds; every date of the model falls on
\* a whole minute, and the model counts minutes: one day is MinutesPerDay
MinutesPerDay == 1440

\* days from 1970-01-01 to the civil date y-m-d
DaysFromCivil(y, m, d) ==
    LET yy == IF m <= 2 THEN y - 1 ELSE y
        era == yy \div 400
        yoe == yy - era * 400
        mp == IF m > 2 THEN m - 3 ELSE m + 9
        doy == (153 * mp + 2) \div 5 + d - 1
        doe == yoe * 365 + yoe \div 4 - yoe \div 100 + doy
    IN  era * 146097 + doe - 719468

\* the string is YYYY-MM-DDTHH:mmZ, a date-time of the ECMAScript format in UTC
IsUtcDateTime(str) ==
    /\ Len(str) = 17
    /\ IsCalendarDate(SubSeq(str, 1, 10))
    /\ str[11] = "T"
    /\ AllIn(SubSeq(str, 12, 13), DigitSet)
    /\ str[14] = ":"
    /\ AllIn(SubSeq(str, 15, 16), DigitSet)
    /\ str[17] = "Z"
    /\ NatOf(SubSeq(str, 12, 13)) <= 23
    /\ NatOf(SubSeq(str, 15, 16)) <= 59

\* new Date(str).getTime(): a date-only string is UTC midnight; the other
\* strings the documents use as booking dates ("soon") are no dates at all and
\* give an Invalid Date, whose time is NaN
DateTime(str) ==
    LET days == DaysFromCivil(NatOf(SubSeq(str, 1, 4)), NatOf(SubSeq(str, 6, 7)),
                              NatOf(SubSeq(str, 9, 10)))
    IN  IF IsCalendarDate(str) THEN Num(days * MinutesPerDay)
        ELSE IF IsUtcDateTime(str)
        THEN Num(days * MinutesPerDay + 60 * NatOf(SubSeq(str, 12, 13))
                 + NatOf(SubSeq(str, 15, 16)))
        ELSE NaN

\* a < b in the place of a <= b
NumLeStrict(a, b) == ~IsNaN(a) /\ ~IsNaN(b) /\ a.n < b.n

\* a <= b and a < b on numbers: false when either is NaN
NumLe(a, b) == ~IsNaN(a) /\ ~IsNaN(b) /\ a.n <= b.n

\* a <= b in the place of a < b
NumLtOrEqual(a, b) == ~IsNaN(a) /\ ~IsNaN(b) /\ a.n <= b.n

NumLt(a, b) == ~IsNaN(a) /\ ~IsNaN(b) /\ a.n < b.n

\* CeilDays with Math.floor in the place of Math.ceil
CeilDaysFloor(a, b) ==
    IF IsNaN(a) \/ IsNaN(b) THEN NaN
    ELSE Num((a.n - b.n) \div MinutesPerDay)

\* Math.ceil((a - b) / MinutesPerDay)
CeilDays(a, b) ==
    IF IsNaN(a) \/ IsNaN(b) THEN NaN
    ELSE Num(0 - ((b.n - a.n) \div MinutesPerDay))

\* the run of digits that starts str
RECURSIVE DigitRun(_)
DigitRun(str) ==
    IF Len(str) > 0 /\ str[1] \in DigitSet THEN <<str[1]>> \o DigitRun(Tail(str)) ELSE <<>>

RECURSIVE TrimStart(_)
TrimStart(str) ==
    IF Len(str) > 0 /\ str[1] \in SpaceSet THEN TrimStart(Tail(str)) ELSE str

RECURSIVE TrimEnd(_)
TrimEnd(str) ==
    IF Len(str) > 0 /\ str[Len(str)] \in SpaceSet
    THEN TrimEnd(SubSeq(str, 1, Len(str) - 1)) ELSE str

\* parseFloat(str), for strings whose numeric prefix is a decimal integer
\* (no fraction and no exponent follows the digits)
parseFloat(str) ==
    LET s0 == TrimStart(str)
        signed == Len(s0) > 0 /\ s0[1] \in {"+", "-"}
        digits == DigitRun(IF signed THEN Tail(s0) ELSE s0)
    IN  IF Len(digits) = 0 THEN NaN
        ELSE IF signed /\ s0[1] = "-" THEN Num(0 - NatOf(digits))
        ELSE Num(NatOf(digits))

\* Number(str): the whole trimmed string must be a decimal integer; '' is 0
StringToNumber(str) ==
    LET s0 == TrimEnd(TrimStart(str))
        signed == Len(s0) > 0 /\ s0[1] \in {"+", "-"}
        body == IF signed THEN Tail(s0) ELSE s0
    IN  IF Len(s0) = 0 THEN Num(0)
        ELSE IF Len(body) = 0 \/ ~AllIn(body, DigitSet) THEN NaN
        ELSE IF signed /\ s0[1] = "-" THEN Num(0 - NatOf(body))
        ELSE Num(NatOf(body))

\* the number a relational operator compares: ToNumber(value)
ToNumber(v) ==
    CASE v.t = "number"    -> v
      [] v.t = "null"      -> Num(0)
      [] v.t = "boolean"   -> IF v.b THEN Num(1) ELSE Num(0)
      [] v.t = "string"    -> StringToNumber(v.s)
      [] v.t = "array"     -> StringToNumber(ToStr(v))
      [] OTHER             -> NaN

\* value.key of an optional chain: undefined when value is undefined or no object
Prop(v, key) == IF v.t = "object" THEN Get(v, key) ELSE Undefined

----------------------------------------------------------------------------
(* The three PII patterns of checkForPII *)

IsWordAt(s, i) == i >= 1 /\ i <= Len(s) /\ s[i] \in WordSet
\* \b between s[i - 1] and s[i]
Boundary(s, i) == IsWordAt(s, i - 1) # IsWordAt(s, i)

DigitsAt(s, p, n) == p + n - 1 <= Len(s) /\ \A i \in p..(p + n - 1) : s[i] \in DigitSet
\* an optional character of the set at s[p], present when o = 1
OptionalAt(s, p, o, set) == o = 0 \/ (p <= Len(s) /\ s[p] \in set)

EmailLocalSet == AlnumSet \cup {".", "_", "%", "+", "-"}
EmailDomainSet == AlnumSet \cup {".", "-"}
EmailTldSet == AlphaSet \cup {"|"}

\* /\b[A-Za-z0-9._%+-]+@[A-Za-z0-9.-]+\.[A-Z|a-z]{2,}\b/.test(s)
TestEmail(s) ==
    \E j \in 1..Len(s) :
        /\ s[j] = "@"
        /\ \E a \in 1..(j - 1) :
              /\ Boundary(s, a)
              /\ AllIn(SubSeq(s, a, j - 1), EmailLocalSet)
        /\ \E k \in (j + 2)..Len(s) :
              /\ s[k] = "."
              /\ AllIn(SubSeq(s, j + 1, k - 1), EmailDomainSet)
              /\ \E l \in (k + 2)..Len(s) :
                    /\ AllIn(SubSeq(s, k + 1, l), EmailTldSet)
                    /\ Boundary(s, l + 1)

\* /\b\d{3}[-.]?\d{3}[-.]?\d{4}\b/.test(s)
TestPhone(s) ==
    \E p \in 1..Len(s) : \E o1 \in {0, 1} : \E o2 \in {0, 1} :
        /\ Boundary(s, p)
        /\ DigitsAt(s, p, 3)
        /\ OptionalAt(s, p + 3, o1, {"-", "."})
        /\ DigitsAt(s, p + 3 + o1, 3)
        /\ OptionalAt(s, p + 6 + o1, o2, {"-", "."})
        /\ DigitsAt(s, p + 6 + o1 + o2, 4)
        /\ Boundary(s, p + 10 + o1 + o2)

\* /\b\d{4}[-\s]?\d{4}[-\s]?\d{4}[-\s]?\d{4}\b/.test(s)
TestCard(s) ==
    \E p \in 1..Len(s) : \E o1 \in {0, 1} : \E o2 \in {0, 1} : \E o3 \in {0, 1} :
        /\ Boundary(s, p)
        /\ DigitsAt(s, p, 4)
        /\ OptionalAt(s, p + 4, o1, {"-"} \cup SpaceSet)
        /\ DigitsAt(s, p + 4 + o1, 4)
        /\ OptionalAt(s, p + 8 + o1, o2, {"-"} \cup SpaceSet)
        /\ DigitsAt(s, p + 8 + o1 + o2, 4)
        /\ OptionalAt(s, p + 12 + o1 + o2, o3, {"-"} \cup SpaceSet)
        /\ DigitsAt(s, p + 12 + o1 + o2 + o3, 4)
        /\ Boundary(s, p + 16 + o1 + o2 + o3)

----------------------------------------------------------------------------
(* validators/tealium-rules.ts *)

RECURSIVE checkForUndefinedValues(_, _)
RECURSIVE UndefinedEntries(_, _, _)
UndefinedEntries(entries, path, i) ==
    IF i > Len(entries) THEN <<>>
    ELSE LET key == entries[i][1]
             value == entries[i][2]
             currentPath == CurrentPath(path, key)
         IN  (IF value = Undefined
              THEN <<[path |-> currentPath,
                      message |-> Lit("Value is undefined - remove or set to null"),
                      value |-> Undefined]>>
              ELSE IF isRecord(value) THEN checkForUndefinedValues(value, currentPath)
              ELSE <<>>)
             \o UndefinedEntries(entries, path, i + 1)

\* the errors checkForUndefinedValues pushes
checkForUndefinedValues(obj, path) ==
    IF obj = Undefined
    THEN <<[path |-> IF path = <<>> THEN <<"/">> ELSE path,
            message |-> Lit("Value is undefined - this may cause tracking issues"),
            value |-> Undefined]>>
    ELSE IF isRecord(obj) THEN UndefinedEntries(obj.e, path, 1)
    ELSE <<>>

IsStringifiedNull(str) ==
    LET lower == ToLowerCase(str)
    IN  lower = S.undefined \/ lower = S.null \/ lower = ToLowerCase(S.NaN)

RECURSIVE checkForStringifiedNulls(_, _)
RECURSIVE StringifiedEntries(_, _, _)
StringifiedEntries(entries, path, i) ==
    IF i > Len(entries) THEN <<>>
    ELSE LET key == entries[i][1]
             value == entries[i][2]
             currentPath == CurrentPath(path, key)
         IN  (IF TypeOf(value) = S.string
              THEN (IF IsStringifiedNull(value.s)
                    THEN <<[path |-> currentPath,
                            message |-> Text("String value \"%s\" looks like a stringified null/undefined",
                                             <<value.s>>),
                            value |-> value,
                            expected |-> Lit("Use actual null or remove the property")]>>
                    ELSE <<>>)
              ELSE IF isRecord(value) THEN checkForStringifiedNulls(value, currentPath)
              ELSE <<>>)
             \o StringifiedEntries(entries, path, i + 1)

\* the errors checkForStringifiedNulls pushes
checkForStringifiedNulls(obj, path) ==
    IF isRecord(obj) THEN StringifiedEntries(obj.e, path, 1) ELSE <<>>

\* the safe fields without transactionId
PII_SAFE_KEYS_ThreeKeys == <<S.userId, S.visitorId, S.bookingId>>

PII_SAFE_KEYS == <<S.userId, S.visitorId, S.bookingId, S.transactionId>>

PiiWarning(currentPath, name) ==
    Warning(currentPath,
            Text("Possible %s detected in data layer", <<name>>),
            Lit("Ensure PII is properly hashed or removed before tracking"))

\* the loop over piiPatterns for one string value
PiiMatches(str, currentPath) ==
    (IF TestEmail(str)
     THEN <<PiiWarning(currentPath, <<"e","m","a","i","l"," ","a","d","d","r","e","s","s">>)>>
     ELSE <<>>)
    \o (IF TestPhone(str)
        THEN <<PiiWarning(currentPath, <<"p","h","o","n","e"," ","n","u","m","b","e","r">>)>>
        ELSE <<>>)
    \o (IF TestCard(str)
        THEN <<PiiWarning(currentPath,
                          <<"c","r","e","d","i","t"," ","c","a","r","d"," ","n","u","m","b","e","r">>)>>
        ELSE <<>>)

RECURSIVE checkForPII(_, _)
RECURSIVE PiiEntries(_, _, _)
PiiEntries(entries, path, i) ==
    IF i > Len(entries) THEN <<>>
    ELSE LET key == entries[i][1]
             value == entries[i][2]
             currentPath == CurrentPath(path, key)
         IN  (IF Includes(PII_SAFE_KEYS, key) THEN <<>>
              ELSE IF TypeOf(value) = S.string THEN PiiMatches(value.s, currentPath)
              ELSE IF isRecord(value) THEN checkForPII(value, currentPath)
              ELSE <<>>)
             \o PiiEntries(entries, path, i + 1)

\* the warnings checkForPII pushes
checkForPII(obj, path) ==
    IF isRecord(obj) THEN PiiEntries(obj.e, path, 1) ELSE <<>>

\* path1.path2 of a literal path
Path2(a, b) == a \o Dot \o b

\* the warning of one price field, none unless the value is a string
PriceWarning(path, value) ==
    IF value # Undefined /\ TypeOf(value) = S.string
    THEN LET parsed == parseFloat(value.s)
             numValue == IF IsNaN(parsed) THEN Num(0) ELSE parsed
         IN  <<Warning(path,
                       Lit("Price value is a string, should be a number"),
                       Text("Convert \"%s\" to number: %s",
                            <<value.s, NumberToString(numValue)>>))>>
    ELSE <<>>

\* the warnings checkPriceValues pushes
checkPriceValues(dl) ==
    PriceWarning(Path2(S.product, S.productPrice), Prop(Get(dl, S.product), S.productPrice))
    \o PriceWarning(Path2(S.transaction, S.transactionTotal),
                    Prop(Get(dl, S.transaction), S.transactionTotal))
    \o PriceWarning(Path2(S.booking, S.bookingTotal), Prop(Get(dl, S.booking), S.bookingTotal))
    \o PriceWarning(Path2(S.booking, S.bookingTaxes), Prop(Get(dl, S.booking), S.bookingTaxes))
    \o PriceWarning(Path2(S.booking, S.bookingFees), Prop(Get(dl, S.booking), S.bookingFees))

\* Math.ceil((checkOut.getTime() - checkIn.getTime()) / (1000 * 60 * 60 * 24))
ExpectedNights(booking) ==
    CeilDays(DateTime(Get(booking, S.bookingCheckOut).s),
             DateTime(Get(booking, S.bookingCheckIn).s))

\* validateBookingData returning at its first error
validateBookingDataFirstError(booking) ==
    LET checkIn == DateTime(Get(booking, S.bookingCheckIn).s)
        checkOut == DateTime(Get(booking, S.bookingCheckOut).s)
        expectedNights == ExpectedNights(booking)
        nights == Get(booking, S.bookingNights)
    IN  IF NumLe(checkOut, checkIn)
        THEN [errors |-> <<[path |-> Path2(S.booking, S.bookingCheckOut),
                            message |-> Lit("Check-out date must be after check-in date"),
                            value |-> Get(booking, S.bookingCheckOut)]>>,
              warnings |-> <<>>]
        ELSE [errors |->
                 IF Get(booking, S.bookingCurrency) = Str(<<>>)
                 THEN <<[path |-> Path2(S.booking, S.bookingCurrency),
                         message |-> Lit("bookingCurrency must not be empty"),
                         expected |-> Lit("3-letter currency code (e.g., EUR, USD)")]>>
                 ELSE <<>>,
              warnings |->
                 IF IsNaN(nights) \/ nights # expectedNights
                 THEN <<Warning(Path2(S.booking, S.bookingNights),
                                Text("bookingNights (%s) doesn't match date range (%s nights)",
                                     <<NumberToString(nights), NumberToString(expectedNights)>>),
                                Text("Set bookingNights to %s", <<NumberToString(expectedNights)>>))>>
                 ELSE <<>>]

\* validateBookingData: what it pushes to errors and to warnings
validateBookingData(booking) ==
    LET checkIn == DateTime(Get(booking, S.bookingCheckIn).s)
        checkOut == DateTime(Get(booking, S.bookingCheckOut).s)
        expectedNights == ExpectedNights(booking)
        nights == Get(booking, S.bookingNights)
    IN  [errors |->
            (IF NumLe(checkOut, checkIn)
             THEN <<[path |-> Path2(S.booking, S.bookingCheckOut),
                     message |-> Lit("Check-out date must be after check-in date"),
                     value |-> Get(booking, S.bookingCheckOut)]>>
             ELSE <<>>)
            \o (IF Get(booking, S.bookingCurrency) = Str(<<>>)
                THEN <<[path |-> Path2(S.booking, S.bookingCurrency),
                        message |-> Lit("bookingCurrency must not be empty"),
                        expected |-> Lit("3-letter currency code (e.g., EUR, USD)")]>>
                ELSE <<>>),
         warnings |->
            IF IsNaN(nights) \/ nights # expectedNights
            THEN <<Warning(Path2(S.booking, S.bookingNights),
                           Text("bookingNights (%s) doesn't match date range (%s nights)",
                                <<NumberToString(nights), NumberToString(expectedNights)>>),
                           Text("Set bookingNights to %s", <<NumberToString(expectedNights)>>))>>
            ELSE <<>>]

\* the warnings validateHotelData pushes
validateHotelData(hotel) ==
    LET rating == Get(hotel, S.hotelStarRating)
    IN  IF rating # Undefined
           /\ (NumLt(ToNumber(rating), Num(1)) \/ NumLt(Num(5), ToNumber(rating)))
        THEN <<Warning(Path2(S.hotel, S.hotelStarRating),
                       Text("Star rating %s is outside normal range (1-5)", <<ToStr(rating)>>),
                       Lit("Use a value between 1 and 5"))>>
        ELSE <<>>

\* the warning of one date field
DateFormatWarning(path, value) ==
    IF value # Undefined /\ TypeOf(value) = S.string /\ ~TestIsoDatePattern(value.s)
    THEN <<Warning(path,
                   Text("Date \"%s\" is not in ISO format", <<value.s>>),
                   Lit("Use YYYY-MM-DD format (e.g., \"2024-03-15\")"))>>
    ELSE <<>>

\* the warnings checkDateFormats pushes
checkDateFormats(dl) ==
    DateFormatWarning(Path2(S.search, S.searchCheckIn), Prop(Get(dl, S.search), S.searchCheckIn))
    \o DateFormatWarning(Path2(S.search, S.searchCheckOut),
                         Prop(Get(dl, S.search), S.searchCheckOut))
    \o DateFormatWarning(Path2(S.booking, S.bookingCheckIn),
                         Prop(Get(dl, S.booking), S.bookingCheckIn))
    \o DateFormatWarning(Path2(S.booking, S.bookingCheckOut),
                         Prop(Get(dl, S.booking), S.bookingCheckOut))

EmptyRules == [errors |-> <<>>, warnings |-> <<>>, suggestions |-> <<>>]

validateTealiumRules(dl) ==
    LET page == Get(dl, S.page)
        pageName == Prop(page, S.pageName)
        currency == Prop(page, S.currency)
        language == Prop(page, S.language)
        booking == Get(dl, S.booking)
        hotel == Get(dl, S.hotel)
        user == Get(dl, S.user)
        event == Get(dl, S.event)
        bookingResult == IF booking # Undefined THEN validateBookingData(booking)
                         ELSE [errors |-> <<>>, warnings |-> <<>>]
    IN  [errors |->
            \* 1. page.pageName exists and is not empty
            (IF pageName = Undefined \/ pageName = Str(<<>>)
             THEN <<[path |-> Path2(S.page, S.pageName),
                     message |-> Lit("page.pageName is required and must not be empty"),
                     expected |-> Lit("non-empty string")]>>
             ELSE <<>>)
            \* 2. undefined values, 3. stringified nulls
            \o checkForUndefinedValues(dl, <<>>)
            \o checkForStringifiedNulls(dl, <<>>)
            \* 8. booking
            \o bookingResult.errors,
         warnings |->
            \* 4. currency format
            (IF currency # Undefined /\ ~TestCurrencyPattern(ToStr(currency))
             THEN <<Warning(Path2(S.page, S.currency),
                            Text("Currency \"%s\" should be ISO 4217 format", <<ToStr(currency)>>),
                            Lit("Use 3-letter uppercase code like \"USD\", \"EUR\", \"GBP\""))>>
             ELSE <<>>)
            \* 5. language format
            \o (IF language # Undefined /\ ~TestLanguagePattern(ToStr(language))
                THEN <<Warning(Path2(S.page, S.language),
                               Text("Language \"%s\" should be ISO format", <<ToStr(language)>>),
                               Lit("Use format like \"en\", \"es\", or \"en-US\", \"es-ES\""))>>
                ELSE <<>>)
            \* 6. PII, 7. prices, 8. booking and hotel, 9. date formats
            \o checkForPII(dl, <<>>)
            \o checkPriceValues(dl)
            \o bookingResult.warnings
            \o (IF hotel # Undefined THEN validateHotelData(hotel) ELSE <<>>)
            \o checkDateFormats(dl),
         suggestions |->
            (IF Prop(user, S.visitorId) = Undefined /\ Prop(user, S.userId) = Undefined
             THEN <<Lit("Consider adding user.visitorId for anonymous tracking")>>
             ELSE <<>>)
            \o (IF event # Undefined /\ Prop(event, S.eventCategory) = Undefined
                THEN <<Lit("Adding eventCategory helps with event organization in reports")>>
                ELSE <<>>)]

----------------------------------------------------------------------------
(* tools/validate.ts *)

\* the result for a dataLayer that is no record
\* the non-object result with the error at the empty path
NotAnObjectResultEmptyPath(dl) ==
    [isValid |-> FALSE,
     errors |-> <<[path |-> <<>>,
                   message |-> Lit("Data layer must be an object"),
                   value |-> dl,
                   expected |-> Lit("object")]>>,
     warnings |-> <<>>,
     suggestions |-> <<Lit("Provide a valid data layer object")>>,
     summary |-> Lit("Invalid data layer: not an object")]

NotAnObjectResult(dl) ==
    [isValid |-> FALSE,
     errors |-> <<[path |-> <<"/">>,
                   message |-> Lit("Data layer must be an object"),
                   value |-> dl,
                   expected |-> Lit("object")]>>,
     warnings |-> <<>>,
     suggestions |-> <<Lit("Provide a valid data layer object")>>,
     summary |-> Lit("Invalid data layer: not an object")]

\* tealiumResult with the page.pageName rule applied to every record
TealiumResultOfPageNameRule(dl) ==
    IF isTealiumDataLayer(dl) THEN validateTealiumRules(dl)
    ELSE [EmptyRules EXCEPT !.errors =
            IF Prop(Prop(dl, S.page), S.pageName) \in {Undefined, Str(<<>>)}
            THEN <<[path |-> Path2(S.page, S.pageName),
                    message |-> Lit("page.pageName is required and must not be empty"),
                    expected |-> Lit("non-empty string")]>>
            ELSE <<>>]

\* const tealiumResult = isTealiumDataLayer(dataLayer) ? validateTealiumRules(dataLayer) : {...}
TealiumResultOf(dl) ==
    IF isTealiumDataLayer(dl) THEN validateTealiumRules(dl) ELSE EmptyRules

\* PromoteWarning with the suggestion dropped
PromoteWarningNoExpected(warning) ==
    [path |-> warning.path, message |-> warning.message]

\* the error a warning becomes in strict mode
PromoteWarning(warning) ==
    IF "suggestion" \in DOMAIN warning
    THEN [path |-> warning.path, message |-> warning.message, expected |-> warning.suggestion]
    ELSE [path |-> warning.path, message |-> warning.message]

\* PromoteWarnings with the last warning left out
PromoteWarningsButLast(warnings) ==
    [i \in 1..(Len(warnings) - 1) |-> PromoteWarning(warnings[i])]

PromoteWarnings(warnings) == [i \in 1..Len(warnings) |-> PromoteWarning(warnings[i])]

\* allWarnings with the naming warnings spread first
AllWarningsNamingFirst(schemaRes, tealiumRes, naming) ==
    naming \o schemaRes.warnings \o tealiumRes.warnings

\* const allWarnings
AllWarnings(schemaRes, tealiumRes, naming) ==
    schemaRes.warnings \o tealiumRes.warnings \o naming

\* allErrors with the warnings promoted in both modes
AllErrorsAlwaysPromoted(schemaRes, tealiumRes, naming, strict) ==
    schemaRes.errors \o tealiumRes.errors
    \o PromoteWarnings(AllWarnings(schemaRes, tealiumRes, naming))

\* allErrors, after the strict-mode loop
AllErrors(schemaRes, tealiumRes, naming, strict) ==
    schemaRes.errors \o tealiumRes.errors
    \o (IF strict THEN PromoteWarnings(AllWarnings(schemaRes, tealiumRes, naming)) ELSE <<>>)

Summary(isValid, nErrors, nWarnings) ==
    IF isValid /\ nWarnings = 0 THEN Lit("Data layer is valid with no warnings")
    ELSE IF isValid
    THEN Text("Data layer is valid with %s warning(s)", <<DigitsOf(nWarnings)>>)
    ELSE Text("Found %s error(s) and %s warning(s)", <<DigitsOf(nErrors), DigitsOf(nWarnings)>>)

\* CombineResults with isValid computed before the strict-mode loop
CombineResultsEarlyValid(schemaRes, tealiumRes, naming, strict) ==
    LET allErrors == AllErrors(schemaRes, tealiumRes, naming, strict)
        allWarnings == AllWarnings(schemaRes, tealiumRes, naming)
        isValid == Len(schemaRes.errors \o tealiumRes.errors) = 0
    IN  [isValid |-> isValid,
         errors |-> allErrors,
         warnings |-> IF strict THEN <<>> ELSE allWarnings,
         suggestions |-> schemaRes.suggestions \o tealiumRes.suggestions,
         summary |-> Summary(isValid, Len(allErrors), Len(allWarnings))]

\* the combination of the three results, validate.ts from "Combine results" on
CombineResults(schemaRes, tealiumRes, naming, strict) ==
    LET allErrors == AllErrors(schemaRes, tealiumRes, naming, strict)
        allWarnings == AllWarnings(schemaRes, tealiumRes, naming)
        isValid == Len(allErrors) = 0
    IN  [isValid |-> isValid,
         errors |-> allErrors,
         warnings |-> IF strict THEN <<>> ELSE allWarnings,
         suggestions |-> schemaRes.suggestions \o tealiumRes.suggestions,
         summary |-> Summary(isValid, Len(allErrors), Len(allWarnings))]

validateDataLayer(dl, uri, strict) ==
    IF ~isRecord(dl) THEN NotAnObjectResult(dl)
    ELSE CombineResults(validateAgainstSchema(dl, uri), TealiumResultOf(dl),
                        checkNamingConventions(dl, <<>>), strict)

----------------------------------------------------------------------------
(* tools/debug: checks *)

Issue(severity, path, issue, recommendation) ==
    [severity |-> severity, path |-> path, issue |-> issue, recommendation |-> recommendation]

RECURSIVE checkEmptyValues(_, _)
RECURSIVE EmptyEntries(_, _, _)
EmptyEntries(entries, path, i) ==
    IF i > Len(entries) THEN <<>>
    ELSE LET key == entries[i][1]
             value == entries[i][2]
             currentPath == CurrentPath(path, key)
         IN  (IF value = Str(<<>>)
              THEN <<Issue("warning", currentPath, Lit("Empty string value"),
                           Lit("Remove the property or set a meaningful value"))>>
              ELSE IF value = Null
              THEN <<Issue("info", currentPath, Lit("Null value"),
                           Lit("Consider if this property should be present at all"))>>
              ELSE IF isArray(value) /\ Len(value.a) = 0
              THEN <<Issue("info", currentPath, Lit("Empty array"),
                           Lit("Remove empty arrays unless intentionally indicating \"no items\""))>>
              ELSE IF isRecord(value) THEN checkEmptyValues(value, currentPath)
              ELSE <<>>)
             \o EmptyEntries(entries, path, i + 1)

\* the issues checkEmptyValues pushes
checkEmptyValues(obj, path) ==
    IF isRecord(obj) THEN EmptyEntries(obj.e, path, 1) ELSE <<>>

\* const expectedTypes
expectedTypes == <<
    <<Path2(S.page, S.pageName), S.string>>,
    <<Path2(S.page, S.language), S.string>>,
    <<Path2(S.user, S.isLoggedIn), S.boolean>>,
    <<Path2(S.user, S.userId), S.string>>,
    <<Path2(S.product, S.productPrice), S.number>>,
    <<Path2(S.product, S.productQuantity), S.number>>,
    <<Path2(S.transaction, S.transactionTotal), S.number>>,
    <<Path2(S.transaction, S.transactionTax), S.number>>,
    <<Path2(S.booking, S.bookingTotal), S.number>>,
    <<Path2(S.booking, S.bookingNights), S.number>>,
    <<Path2(S.booking, S.bookingAdults), S.number>>,
    <<Path2(S.booking, S.bookingRooms), S.number>>,
    <<Path2(S.hotel, S.hotelStarRating), S.number>>,
    <<Path2(S.search, S.searchAdults), S.number>>,
    <<Path2(S.search, S.searchRooms), S.number>>,
    <<Path2(S.guest, S.guestLoyaltyPoints), S.number>> >>

HasExpectedType(path) == \E i \in 1..Len(expectedTypes) : expectedTypes[i][1] = path
ExpectedTypeOf(path) ==
    expectedTypes[CHOOSE i \in 1..Len(expectedTypes) : expectedTypes[i][1] = path][2]

RECURSIVE checkDataTypes(_, _)
RECURSIVE DataTypeEntries(_, _, _)
DataTypeEntries(entries, path, i) ==
    IF i > Len(entries) THEN <<>>
    ELSE LET key == entries[i][1]
             value == entries[i][2]
             currentPath == CurrentPath(path, key)
         IN  (IF /\ HasExpectedType(currentPath)
                 /\ TypeOf(value) # ExpectedTypeOf(currentPath)
                 /\ value # Null
                 /\ value # Undefined
              THEN <<[path |-> currentPath,
                      expected |-> ExpectedTypeOf(currentPath),
                      actual |-> TypeOf(value)]>>
              ELSE <<>>)
             \o (IF isRecord(value) THEN checkDataTypes(value, currentPath) ELSE <<>>)
             \o DataTypeEntries(entries, path, i + 1)

\* the mismatches checkDataTypes pushes
checkDataTypes(obj, path) ==
    IF isRecord(obj) THEN DataTypeEntries(obj.e, path, 1) ELSE <<>>

\* the names checkCommonMissingVariables pushes
checkCommonMissingVariables(dl) ==
    LET page == Get(dl, S.page)
        user == Get(dl, S.user)
        booking == Get(dl, S.booking)
        search == Get(dl, S.search)
        hotel == Get(dl, S.hotel)
    IN  (IF page = Undefined THEN <<Lit("page (entire object)")>>
         ELSE (IF Get(page, S.pageName) = Str(<<>>) THEN <<Lit("page.pageName")>> ELSE <<>>)
              \o (IF Get(page, S.pageType) = Undefined THEN <<Lit("page.pageType")>> ELSE <<>>))
        \o (IF user = Undefined THEN <<Lit("user (entire object)")>>
            ELSE IF Get(user, S.visitorId) = Undefined /\ Get(user, S.userId) = Undefined
            THEN <<Lit("user.visitorId or user.userId")>>
            ELSE <<>>)
        \o (IF booking # Undefined
            THEN (IF Prop(hotel, S.hotelCode) = Undefined THEN <<Lit("hotel.hotelCode")>> ELSE <<>>)
                 \o (IF Get(booking, S.bookingCurrency) = Str(<<>>)
                     THEN <<Lit("booking.bookingCurrency")>> ELSE <<>>)
            ELSE <<>>)
        \o (IF /\ search # Undefined
               /\ Get(search, S.searchDestination) = Undefined
               /\ hotel = Undefined
            THEN <<Lit("search.searchDestination or hotel context")>>
            ELSE <<>>)

\* checkEventTracking: what it pushes to issues and to recommendations
checkEventTracking(dl) ==
    LET event == Get(dl, S.event)
        name == Get(event, S.eventName).s
    IN  IF event = Undefined THEN [issues |-> <<>>, recommendations |-> <<>>]
        ELSE [issues |->
                (IF \E i \in 1..Len(name) : name[i] = " "
                 THEN <<Issue("warning", Path2(S.event, S.eventName),
                              Text("Event name contains spaces: \"%s\"", <<name>>),
                              Lit("Use snake_case or dot.notation (e.g., \"booking_completed\" or \"booking.completed\")"))>>
                 ELSE <<>>)
                \o (IF name # ToLowerCase(name)
                    THEN <<Issue("info", Path2(S.event, S.eventName),
                                 Lit("Event name contains uppercase characters"),
                                 Lit("Consider using lowercase for consistency"))>>
                    ELSE <<>>),
              recommendations |->
                IF Get(event, S.eventCategory) = Undefined
                THEN <<Lit("Add eventCategory for better event organization in reports")>>
                ELSE <<>>]

\* checkBookingFunnel with the past check-in reported as an error
checkBookingFunnelPastIsError(dl, clock) ==
    LET booking == Get(dl, S.booking)
        checkIn == DateTime(Get(booking, S.bookingCheckIn).s)
        checkOut == DateTime(Get(booking, S.bookingCheckOut).s)
    IN  IF booking = Undefined THEN <<>>
        ELSE (IF Get(dl, S.hotel) = Undefined /\ Get(booking, S.bookingId) # Undefined
              THEN <<Issue("error", S.hotel, Lit("Booking exists but hotel data is missing"),
                           Lit("Include hotel.hotelCode and hotel.hotelName with booking data"))>>
              ELSE <<>>)
             \o (IF NumLt(checkIn, Num(clock))
                    /\ Get(booking, S.bookingStatus) # Str(S.completed)
                 THEN <<Issue("error", Path2(S.booking, S.bookingCheckIn),
                              Lit("Check-in date is in the past"),
                              Lit("Verify date is correct or update booking status"))>>
                 ELSE <<>>)
             \o (IF NumLt(checkOut, checkIn)
                 THEN <<Issue("error", Path2(S.booking, S.bookingCheckOut),
                              Lit("Check-out date is before check-in date"),
                              Lit("Fix date values"))>>
                 ELSE <<>>)
             \o (IF Get(booking, S.bookingTotal) = Num(0)
                 THEN <<Issue("warning", Path2(S.booking, S.bookingTotal),
                              Lit("Booking total is zero"),
                              Lit("Verify pricing data is correctly populated"))>>
                 ELSE <<>>)

\* the issues checkBookingFunnel pushes; clock is the time new Date() reads
checkBookingFunnel(dl, clock) ==
    LET booking == Get(dl, S.booking)
        checkIn == DateTime(Get(booking, S.bookingCheckIn).s)
        checkOut == DateTime(Get(booking, S.bookingCheckOut).s)
    IN  IF booking = Undefined THEN <<>>
        ELSE (IF Get(dl, S.hotel) = Undefined /\ Get(booking, S.bookingId) # Undefined
              THEN <<Issue("error", S.hotel, Lit("Booking exists but hotel data is missing"),
                           Lit("Include hotel.hotelCode and hotel.hotelName with booking data"))>>
              ELSE <<>>)
             \o (IF NumLt(checkIn, Num(clock))
                    /\ Get(booking, S.bookingStatus) # Str(S.completed)
                 THEN <<Issue("warning", Path2(S.booking, S.bookingCheckIn),
                              Lit("Check-in date is in the past"),
                              Lit("Verify date is correct or update booking status"))>>
                 ELSE <<>>)
             \o (IF NumLt(checkOut, checkIn)
                 THEN <<Issue("error", Path2(S.booking, S.bookingCheckOut),
                              Lit("Check-out date is before check-in date"),
                              Lit("Fix date values"))>>
                 ELSE <<>>)
             \o (IF Get(booking, S.bookingTotal) = Num(0)
                 THEN <<Issue("warning", Path2(S.booking, S.bookingTotal),
                              Lit("Booking total is zero"),
                              Lit("Verify pricing data is correctly populated"))>>
                 ELSE <<>>)

\* the loop over dataLayer.products of the products checkpoint, from index i on
RECURSIVE ProductIssues(_, _)
ProductIssues(products, i) ==
    IF i > Len(products) THEN <<>>
    ELSE (IF Get(products[i], S.productId) = Str(<<>>)
          THEN <<Issue("error",
                       <<"p","r","o","d","u","c","t","s","[">> \o DigitsOf(i - 1)
                           \o <<"]",".","p","r","o","d","u","c","t","I","d">>,
                       Lit("Product has empty productId"),
                       Lit("Every product must have a unique identifier"))>>
          ELSE <<>>)
         \o ProductIssues(products, i + 1)

\* checkSpecificArea comparing the checkpoint name as it is written
checkSpecificAreaCaseSensitive(dl, checkpoint) ==
    LET area == checkpoint
        products == Get(dl, S.products)
        search == Get(dl, S.search)
        none == [issues |-> <<>>, recommendations |-> <<>>]
    IN  IF area = S.ecommerce \/ area = S.products
        THEN [issues |-> IF products # Undefined THEN ProductIssues(products.a, 1) ELSE <<>>,
              recommendations |-> <<>>]
        ELSE IF area = S.loyalty \/ area = S.guest
        THEN [issues |->
                IF /\ Get(dl, S.guest) = Undefined
                   /\ Prop(Get(dl, S.user), S.userType) = Str(S.loyalty)
                THEN <<Issue("warning", S.guest,
                             Lit("User is loyalty member but guest data is missing"),
                             Lit("Include guest.guestLoyaltyTier and guest.guestLoyaltyPoints"))>>
                ELSE <<>>,
              recommendations |-> <<>>]
        ELSE IF area = S.search
        THEN [issues |-> <<>>,
              recommendations |->
                IF search # Undefined /\ Get(search, S.searchCheckIn) = Undefined
                THEN <<Lit("Include check-in and check-out dates in search data for better analysis")>>
                ELSE <<>>]
        ELSE none

\* checkSpecificArea: what it pushes to issues and to recommendations
checkSpecificArea(dl, checkpoint) ==
    LET area == ToLowerCase(checkpoint)
        products == Get(dl, S.products)
        search == Get(dl, S.search)
        none == [issues |-> <<>>, recommendations |-> <<>>]
    IN  IF area = S.ecommerce \/ area = S.products
        THEN [issues |-> IF products # Undefined THEN ProductIssues(products.a, 1) ELSE <<>>,
              recommendations |-> <<>>]
        ELSE IF area = S.loyalty \/ area = S.guest
        THEN [issues |->
                IF /\ Get(dl, S.guest) = Undefined
                   /\ Prop(Get(dl, S.user), S.userType) = Str(S.loyalty)
                THEN <<Issue("warning", S.guest,
                             Lit("User is loyalty member but guest data is missing"),
                             Lit("Include guest.guestLoyaltyTier and guest.guestLoyaltyPoints"))>>
                ELSE <<>>,
              recommendations |-> <<>>]
        ELSE IF area = S.search
        THEN [issues |-> <<>>,
              recommendations |->
                IF search # Undefined /\ Get(search, S.searchCheckIn) = Undefined
                THEN <<Lit("Include check-in and check-out dates in search data for better analysis")>>
                ELSE <<>>]
        ELSE none

CRITICAL_ERROR_THRESHOLD == 5

RECURSIVE CountErrors(_)
\* issues.filter((i) => i.severity === 'error').length
CountErrors(issues) ==
    IF Len(issues) = 0 THEN 0
    ELSE (IF issues[1].severity = "error" THEN 1 ELSE 0) + CountErrors(Tail(issues))

\* the recommendations generateRecommendations pushes
generateRecommendations(dl, issues) ==
    LET bookingCurrency == Prop(Get(dl, S.booking), S.bookingCurrency)
        pageCurrency == Prop(Get(dl, S.page), S.currency)
    IN  (IF CountErrors(issues) > CRITICAL_ERROR_THRESHOLD
         THEN <<Lit("Consider reviewing your data layer implementation - multiple critical issues detected")>>
         ELSE <<>>)
        \o (IF Prop(Get(dl, S.page), S.pageType) = Undefined
            THEN <<Lit("Add page.pageType for better page classification in analytics")>>
            ELSE <<>>)
        \o (IF /\ bookingCurrency # Undefined
               /\ pageCurrency # Undefined
               /\ bookingCurrency # pageCurrency
            THEN <<Lit("Ensure page.currency and booking.bookingCurrency are consistent")>>
            ELSE <<>>)

----------------------------------------------------------------------------
(* tools/debug: debugDataLayer *)

\* the recommendations returned as they were pushed
DedupeKeepAll(seq) == seq

RECURSIVE Dedupe(_)
\* [...new Set(recommendations)]: the first occurrence of each string, in order
Dedupe(seq) ==
    IF Len(seq) = 0 THEN <<>>
    ELSE LET front == SubSeq(seq, 1, Len(seq) - 1)
             last == seq[Len(seq)]
         IN  IF \E i \in 1..Len(front) : front[i] = last
             THEN Dedupe(front)
             ELSE Dedupe(front) \o <<last>>

RECURSIVE CheckpointResults(_, _, _)
\* the loop over checkPoints, from index i on
CheckpointResults(dl, cps, i) ==
    IF i > Len(cps) THEN [issues |-> <<>>, recommendations |-> <<>>]
    ELSE LET head == checkSpecificArea(dl, cps[i])
             rest == CheckpointResults(dl, cps, i + 1)
         IN  [issues |-> head.issues \o rest.issues,
              recommendations |-> head.recommendations \o rest.recommendations]

\* the result for a dataLayer isTealiumDataLayer rejects
InvalidDataLayerResult ==
    [dataLayerSnapshot |-> Obj(<<>>),
     issues |-> <<Issue("error", <<"/">>, Lit("Invalid data layer: must be an object"),
                        Lit("Provide a valid data layer object"))>>,
     missingVariables |-> <<>>,
     typeMismatches |-> <<>>,
     recommendations |-> <<Lit("Ensure the data layer is a valid object")>>]

\* the locals issues and recommendations after every check has run
DebugIssues(dl, cps, clock) ==
    checkEmptyValues(dl, <<>>) \o checkEventTracking(dl).issues
    \o checkBookingFunnel(dl, clock) \o CheckpointResults(dl, cps, 1).issues

DebugRecommendations(dl, cps, clock) ==
    checkEventTracking(dl).recommendations \o CheckpointResults(dl, cps, 1).recommendations
    \o generateRecommendations(dl, DebugIssues(dl, cps, clock))

\* debugDataLayer past its guard: the checks and the result made of them
DebugChecks(dl, cps, clock) ==
    [dataLayerSnapshot |-> dl,
     issues |-> DebugIssues(dl, cps, clock),
     missingVariables |-> checkCommonMissingVariables(dl),
     typeMismatches |-> checkDataTypes(dl, <<>>),
     recommendations |-> Dedupe(DebugRecommendations(dl, cps, clock))]

\* debugDataLayer returning an empty snapshot for every document
debugDataLayerEmptySnapshot(dl, cps, clock) ==
    IF ~isTealiumDataLayer(dl) THEN InvalidDataLayerResult
    ELSE [DebugChecks(dl, cps, clock) EXCEPT !.dataLayerSnapshot = Obj(<<>>)]

debugDataLayer(dl, cps, clock) ==
    IF ~isTealiumDataLayer(dl) THEN InvalidDataLayerResult
    ELSE DebugChecks(dl, cps, clock)

----------------------------------------------------------------------------
(* The calls the model makes: documents, schema ids, options *)

\* strings that occur in the documents
D == [
    Home |-> <<"H","o","m","e">>,
    home |-> <<"h","o","m","e">>,
    USD |-> <<"U","S","D">>,
    usd |-> <<"u","s","d">>,
    dollars |-> <<"d","o","l","l","a","r","s">>,
    US |-> <<"U","S">>,
    EUR |-> <<"E","U","R">>,
    en |-> <<"e","n">>,
    EN |-> <<"E","N">>,
    enUS |-> <<"e","n","-","U","S">>,
    undefinedStr |-> <<"u","n","d","e","f","i","n","e","d">>,
    NullStr |-> <<"N","u","l","l">>,
    email |-> <<"a","@","b",".","c","o">>,
    phone |-> <<"5","5","5","-","1","2","3","-","4","5","6","7">>,
    card |-> <<"4","1","1","1"," ","1","1","1","1"," ","1","1","1","1"," ","1","1","1","1">>,
    plain |-> <<"x","1">>,
    mar05 |-> <<"2","0","2","4","-","0","3","-","0","5">>,
    mar10 |-> <<"2","0","2","4","-","0","3","-","1","0">>,
    mar15 |-> <<"2","0","2","4","-","0","3","-","1","5">>,
    mar14noon |-> <<"2","0","2","4","-","0","3","-","1","4","T","1","2",":","0","0","Z">>,
    mar05noon |-> <<"2","0","2","4","-","0","3","-","0","5","T","1","2",":","0","0","Z">>,
    notADate |-> <<"s","o","o","n">>,
    slashDate |-> <<"0","3","/","1","5","/","2","0","2","4">>,
    bookingRef |-> <<"X">>,
    hundred |-> <<"1","0","0">>,
    free |-> <<"f","r","e","e">>,
    code |-> <<"H","1">>,
    name |-> <<"I","n","n">>,
    unknownUri |-> <<"t","e","a","l","i","u","m",":","/","/","s","c","h","e","m","a","/","u","n","k","n","o","w","n">>,
    Hotel_Name |-> <<"H","o","t","e","l","_","N","a","m","e">>,
    first_name |-> <<"f","i","r","s","t","-","n","a","m","e">>,
    X |-> <<"X">>,
    ID |-> <<"I","D">>,
    URL |-> <<"U","R","L">>,
    keyNull |-> <<"N","u","l","l">>,
    underPrivate |-> <<"_","p","r","i","v","a","t","e">>,
    a_b |-> <<"a"," ","b">>,
    meta |-> <<"m","e","t","a">>,
    inner |-> <<"i","n","n","e","r">>,
    contact |-> <<"c","o","n","t","a","c","t">>,
    trailing_ |-> <<"t","r","a","i","l","i","n","g","_">>,
    hotelName2 |-> <<"h","o","t","e","l","N","a","m","e","2">>,
    Page |-> <<"P","a","g","e">>,
    Products |-> <<"P","r","o","d","u","c","t","s">>,
    Search |-> <<"S","e","a","r","c","h">>,
    LOYALTY |-> <<"L","O","Y","A","L","T","Y">>,
    other |-> <<"o","t","h","e","r">>,
    signup |-> <<"s","i","g","n","u","p">>,
    SignUp |-> <<"S","i","g","n"," ","U","p">>,
    p1 |-> <<"p","1">>,
    paris |-> <<"P","a","r","i","s">>
]

\* a property the document does not have
Absent == [t |-> "absent"]
\* the object with the given entries, those marked Absent left out
Make(entries) == Obj(SelectSeq(entries, LAMBDA e : e[2] # Absent))

\* bookingNights ranges up to MaxNights
MaxNights == 6
\* keys nest down to MaxDepth records
MaxDepth == 3

NonRecords == {Null, Undefined, Str(D.plain), Num(5), Bool(TRUE), Arr(<<>>), Arr(<<Obj(<<>>)>>)}

PageOptions ==
    {Absent, Obj(<<>>), Null,
     Make(<<<<S.pageName, Str(D.Home)>>>>),
     Make(<<<<S.pageName, Str(<<>>)>>>>),
     Make(<<<<S.pageName, Str(D.undefinedStr)>>>>),
     Make(<<<<S.pageType, Str(D.home)>>>>),
     Make(<<<<S.pageName, Num(5)>>>>),
     Make(<<<<S.currency, Str(D.usd)>>>>),
     Make(<<<<S.currency, Str(D.USD)>>>>),
     Make(<<<<S.pageName, Str(D.Home)>>, <<S.pageType, Str(D.home)>>,
            <<S.language, Str(D.enUS)>>>>),
     Make(<<<<S.pageName, Str(D.Home)>>, <<S.language, Str(D.EN)>>>>),
     Make(<<<<S.pageName, Str(D.Home)>>, <<S.pageType, Str(D.home)>>>>)}
    \cup {Make(<<<<S.pageName, Str(D.Home)>>, <<S.currency, c>>>>) :
            c \in {Str(D.USD), Str(D.usd), Str(D.dollars), Str(D.US), Num(5), Null,
                   Arr(<<Str(D.USD)>>), Str(D.email)}}

UserOptions ==
    {Absent,
     Make(<<<<S.userId, Str(D.email)>>, <<S.visitorId, Str(D.phone)>>,
            <<D.contact, Str(D.card)>>>>),
     Make(<<<<S.userId, Num(5)>>>>),
     Make(<<<<S.userType, Str(S.loyalty)>>, <<D.contact, Str(D.phone)>>,
            <<D.Hotel_Name, Str(D.name)>>>>)}

PageDocs == {Make(<<<<S.page, p>>, <<S.user, u>>>>) : p \in PageOptions, u \in UserOptions}

ValidHotel == Make(<<<<S.hotelCode, Str(D.code)>>, <<S.hotelName, Str(D.name)>>>>)

HotelOptions ==
    {Absent, ValidHotel,
     Make(<<<<S.hotelCode, Str(D.code)>>, <<S.hotelName, Str(D.name)>>,
            <<S.hotelStarRating, Num(6)>>>>),
     Make(<<<<D.Hotel_Name, Str(D.name)>>>>)}

\* a booking with every field isBookingData asks for
Booking(id, checkIn, checkOut, nights, total, currency, status) ==
    Make(<<<<S.bookingId, id>>,
           <<S.bookingStatus, status>>,
           <<S.bookingCheckIn, Str(checkIn)>>,
           <<S.bookingCheckOut, Str(checkOut)>>,
           <<S.bookingNights, Num(nights)>>,
           <<S.bookingAdults, Num(2)>>,
           <<S.bookingRooms, Num(1)>>,
           <<S.bookingTotal, total>>,
           <<S.bookingCurrency, Str(currency)>>>>)

\* bookings that differ in their dates and nights
NightsBookings ==
    {Booking(Absent, checkIn, checkOut, nights, Num(100), D.EUR, Absent) :
        checkIn \in {D.mar10, D.notADate},
        checkOut \in {D.mar15, D.mar14noon, D.mar10, D.mar05noon},
        nights \in 3..MaxNights}
    \cup {Booking(Absent, D.mar10, D.mar05noon, 0 - 4, Num(100), D.EUR, Absent),
          Booking(Absent, D.mar10, D.mar05, 0 - 5, Num(100), D.EUR, Absent)}

\* bookings that differ in their other fields
FieldBookings ==
    {Booking(id, D.mar10, D.mar15, 5, total, currency, status) :
        id \in {Absent, Str(D.bookingRef), Str(D.email), Null},
        total \in {Num(100), Num(0), Str(D.hundred)},
        currency \in {D.EUR, <<>>},
        status \in {Absent, Str(S.completed)}}
    \cup {Make(<<<<S.bookingId, Str(D.bookingRef)>>>>),
          Make(<<<<S.bookingId, Str(D.bookingRef)>>, <<S.bookingCheckIn, Str(D.mar10)>>,
                 <<S.bookingCheckOut, Str(D.mar15)>>>>)}

BookingDocs ==
    {Make(<<<<S.booking, b>>, <<S.hotel, h>>>>) :
        b \in NightsBookings, h \in {Absent, ValidHotel}}
    \cup {Make(<<<<S.booking, b>>, <<S.hotel, h>>>>) :
            b \in FieldBookings, h \in HotelOptions}
    \cup {Make(<<<<S.page, p>>, <<S.booking, b>>>>) :
            p \in {Obj(<<>>), Make(<<<<S.pageName, Str(D.Home)>>, <<S.currency, Str(D.USD)>>>>)},
            b \in {Booking(Str(D.bookingRef), D.mar10, D.mar15, n, Num(100), D.EUR, Absent) :
                     n \in {4, 5}}}

\* the keys of the innermost record of a chain, and the keys above it
LastKeys == {S.userId, S.visitorId, S.bookingId, S.transactionId, D.contact,
             D.Hotel_Name, S.hotel, D.first_name, D.X, S.id, D.ID, D.URL, D.keyNull,
             D.underPrivate, D.a_b, D.trailing_, D.hotelName2, D.Page, <<>>}
OuterKeys == {S.user, D.meta}
Leaves == {Str(D.email), Str(D.phone), Str(D.card), Str(D.plain)}

RECURSIVE Chains(_)
\* the records that nest depth deep: one key each, a leaf at the bottom
Chains(depth) ==
    IF depth = 1 THEN {Obj(<<<<k, v>>>>) : k \in LastKeys, v \in Leaves}
    ELSE {Obj(<<<<k, c>>>>) : k \in OuterKeys, c \in Chains(depth - 1)}

ChainDocs == UNION {Chains(d) : d \in 1..MaxDepth}

\* documents for the other sections and the checkpoints
OtherDocs ==
    {Make(<<<<S.products, Arr(<<Make(<<<<S.productId, Str(<<>>)>>, <<S.productName, Str(D.name)>>>>),
                                Make(<<<<S.productId, Str(D.p1)>>, <<S.productName, Str(D.name)>>>>),
                                Make(<<<<S.productId, Str(<<>>)>>, <<S.productName, Str(D.name)>>>>)>>)>>>>),
     Make(<<<<S.products, Arr(<<>>)>>, <<S.page, Null>>>>),
     Make(<<<<S.products, Arr(<<Make(<<<<S.productId, Str(<<>>)>>,
                                        <<S.productName, Str(D.name)>>>>)>>)>>,
            <<S.search, Make(<<<<S.searchDestination, Str(D.paris)>>>>)>>>>),
     Make(<<<<S.search, Make(<<<<S.searchDestination, Str(D.paris)>>>>)>>,
            <<S.user, Make(<<<<S.userType, Str(S.loyalty)>>>>)>>>>),
     Make(<<<<S.search, Make(<<<<S.searchCheckIn, Str(D.slashDate)>>>>)>>,
            <<S.event, Make(<<<<S.eventName, Str(D.SignUp)>>>>)>>>>),
     Make(<<<<S.event, Make(<<<<S.eventName, Str(D.signup)>>,
                               <<S.eventCategory, Str(<<>>)>>>>)>>,
            <<S.transaction, Make(<<<<S.transactionId, Str(D.phone)>>,
                                     <<S.transactionTotal, Num(100)>>>>)>>,
            <<S.product, Make(<<<<S.productId, Str(D.p1)>>, <<S.productName, Str(D.name)>>,
                                 <<S.productPrice, Str(D.hundred)>>>>)>>>>),
     Make(<<<<D.other, Undefined>>, <<D.meta, Make(<<<<D.inner, Undefined>>,
                                                     <<D.contact, Str(D.NullStr)>>>>)>>>>),
     Make(<<<<D.hotelName2, Str(D.name)>>, <<S.page, Make(<<<<S.pageName, Str(D.Home)>>>>)>>>>),
     \* a complete booking with its taxes and fees as strings
     Make(<<<<S.booking,
              Obj(Booking(Absent, D.mar10, D.mar15, 5, Num(100), D.EUR, Absent).e
                  \o <<<<S.bookingTaxes, Str(D.free)>>, <<S.bookingFees, Str(D.hundred)>>>>)>>>>),
     \* a transaction with its total as a string
     Make(<<<<S.transaction, Make(<<<<S.transactionId, Str(D.bookingRef)>>,
                                     <<S.transactionTotal, Str(D.hundred)>>>>)>>>>),
     \* an email address inside the products array
     Make(<<<<S.products, Arr(<<Make(<<<<S.productId, Str(D.p1)>>,
                                        <<S.productName, Str(D.email)>>>>)>>)>>,
            <<D.contact, Str(D.phone)>>>>),
     \* a page with one key that is not camelCase beside it
     Make(<<<<S.page, Make(<<<<S.pageName, Str(D.Home)>>>>)>>, <<D.Hotel_Name, Str(D.name)>>>>),
     \* a document that breaks every rule of validateTealiumRules
     Make(<<<<S.page, Make(<<<<S.pageName, Str(<<>>)>>, <<S.currency, Str(D.usd)>>,
                              <<S.language, Str(D.EN)>>>>)>>,
            <<D.other, Undefined>>,
            <<D.meta, Make(<<<<D.inner, Str(D.NullStr)>>, <<D.contact, Str(D.email)>>>>)>>,
            <<S.product, Make(<<<<S.productId, Str(D.p1)>>, <<S.productName, Str(D.name)>>,
                                 <<S.productPrice, Str(D.hundred)>>>>)>>,
            <<S.booking, Booking(Absent, D.mar15, D.mar10, 3, Num(100), <<>>, Absent)>>,
            <<S.hotel, Make(<<<<S.hotelCode, Str(D.code)>>, <<S.hotelName, Str(D.name)>>,
                               <<S.hotelStarRating, Num(6)>>>>)>>,
            <<S.search, Make(<<<<S.searchCheckIn, Str(D.slashDate)>>>>)>>>>)}

SchemaUris == {S.standardUri, S.ecommerceUri, S.hotelsUri, D.unknownUri}

CheckpointLists ==
    {<<>>, <<D.Products, D.other>>, <<S.search, D.LOYALTY, S.search>>,
     <<S.ecommerce, S.products, S.guest>>, <<S.search, S.products, S.search, S.products>>}

\* the times new Date() reads: before and after the dates of the documents
Clocks == {DaysFromCivil(2024, 1, 1) * MinutesPerDay, DaysFromCivil(2026, 1, 1) * MinutesPerDay}

ValidateCall(dl, uri, strict) ==
    [op |-> "validate", dl |-> dl, uri |-> uri, strict |-> strict, cps |-> <<>>, clock |-> 0]
DebugCall(dl, cps, clock) ==
    [op |-> "debug", dl |-> dl, uri |-> <<>>, strict |-> FALSE, cps |-> cps, clock |-> clock]

ValidateCalls ==
    {ValidateCall(dl, uri, strict) :
        dl \in NonRecords \cup PageDocs \cup OtherDocs, uri \in SchemaUris, strict \in BOOLEAN}
    \cup {ValidateCall(dl, uri, strict) :
            dl \in BookingDocs, uri \in {S.hotelsUri, D.unknownUri}, strict \in BOOLEAN}
    \cup {ValidateCall(dl, S.standardUri, strict) : dl \in ChainDocs, strict \in BOOLEAN}

DebugCalls ==
    {DebugCall(dl, cps, clock) :
        dl \in NonRecords \cup PageDocs \cup OtherDocs, cps \in CheckpointLists,
        clock \in {DaysFromCivil(2024, 1, 1) * MinutesPerDay}}
    \cup {DebugCall(dl, <<>>, clock) : dl \in BookingDocs, clock \in Clocks}
    \cup {DebugCall(dl, <<>>, DaysFromCivil(2024, 1, 1) * MinutesPerDay) : dl \in Chains(1)}

\* the values the type guards are called on: primitives, sections, documents
GuardValues ==
    NonRecords \cup {NaN, Num(0), Bool(FALSE), Str(<<>>), Arr(<<Str(D.plain)>>),
                     Arr(<<Num(1), Str(D.plain)>>), Arr(<<Null>>)}
    \cup (PageOptions \ {Absent}) \cup (UserOptions \ {Absent}) \cup (HotelOptions \ {Absent})
    \cup FieldBookings
    \cup {Make(<<<<S.bookingCheckIn, Str(D.mar10)>>, <<S.bookingCheckOut, Str(D.mar15)>>,
                  <<S.bookingNights, nights>>, <<S.bookingAdults, Num(2)>>,
                  <<S.bookingRooms, rooms>>, <<S.bookingTotal, Num(100)>>,
                  <<S.bookingCurrency, Str(D.EUR)>>>>) :
             nights \in {Num(5), NaN, Str(D.hundred)}, rooms \in {Num(1), NaN, Null}}
    \cup {Make(<<<<S.transactionId, id>>, <<S.transactionTotal, total>>>>) :
             id \in {Str(D.bookingRef), Num(5)}, total \in {Num(100), NaN, Str(D.hundred)}}
    \cup {Make(<<<<S.userId, Str(D.plain)>>, <<S.loyaltyPoints, points>>,
                  <<S.isLoggedIn, logged>>>>) :
             points \in {Absent, Num(5), NaN}, logged \in {Absent, Bool(TRUE), Str(S.true)}}
    \cup {Make(<<<<S.eventName, Str(D.signup)>>, <<S.eventCategory, Num(5)>>>>),
          Make(<<<<S.productId, Str(D.p1)>>, <<S.productName, Str(D.name)>>,
                 <<S.productPrice, Str(D.hundred)>>>>),
          Make(<<<<S.roomType, Str(D.plain)>>, <<S.roomCapacity, NaN>>>>),
          Make(<<<<S.searchDestination, Str(D.paris)>>, <<S.searchAdults, NaN>>>>),
          Make(<<<<S.guestType, Str(S.loyalty)>>, <<S.guestLoyaltyPoints, NaN>>>>),
          Make(<<<<S.guestType, Str(D.plain)>>>>),
          Make(<<<<S.guestPreferences, Arr(<<Num(1)>>)>>>>)}
    \cup OtherDocs
    \cup {Make(<<<<S.page, p>>, <<S.booking, b>>>>) :
             p \in {Make(<<<<S.pageName, Str(D.Home)>>, <<S.currency, Num(5)>>>>)},
             b \in {Absent,
                    Make(<<<<S.bookingCheckIn, Str(D.mar10)>>, <<S.bookingCheckOut, Str(D.mar15)>>,
                           <<S.bookingNights, NaN>>, <<S.bookingAdults, Num(2)>>,
                           <<S.bookingRooms, Num(1)>>, <<S.bookingTotal, Num(100)>>,
                           <<S.bookingCurrency, Str(D.EUR)>>>>)}}

GuardCalls ==
    {[op |-> "guard", dl |-> value, uri |-> <<>>, strict |-> FALSE, cps |-> <<>>, clock |-> 0] :
        value \in GuardValues}

Calls == ValidateCalls \cup DebugCalls \cup GuardCalls

----------------------------------------------------------------------------
(* The state machine: one call of a tool on its arguments *)

Init ==
    /\ pc = "ready"
    /\ \E c \in Calls :
        /\ op = c.op
        /\ dataLayer = c.dl
        /\ schemaUri = c.uri
        /\ strictMode = c.strict
        /\ checkPoints = c.cps
        /\ now = c.clock
    /\ schemaResult = Undefined
    /\ tealiumResult = Undefined
    /\ namingWarnings = Undefined
    /\ result = Undefined
    /\ debugResult = Undefined
    /\ guardResult = Undefined
    /\ previous = Undefined

\* validateDataLayer(dataLayer, schemaUri, strictMode), its locals kept: the
\* first call and, with the same arguments, the second
ValidateFrom(before, after) ==
    /\ pc = before
    /\ op = "validate"
    /\ IF isRecord(dataLayer)
       THEN /\ schemaResult' = validateAgainstSchema(dataLayer, schemaUri)
            /\ tealiumResult' = TealiumResultOf(dataLayer)
            /\ namingWarnings' = checkNamingConventions(dataLayer, <<>>)
            /\ result' = CombineResults(schemaResult', tealiumResult', namingWarnings',
                                        strictMode)
       ELSE /\ result' = NotAnObjectResult(dataLayer)
            /\ UNCHANGED <<schemaResult, tealiumResult, namingWarnings>>
    /\ previous' = result
    /\ pc' = after
    /\ UNCHANGED <<op, dataLayer, schemaUri, strictMode, checkPoints, now, debugResult,
                   guardResult>>

Validate == ValidateFrom("ready", "validated")

ValidateAgain == ValidateFrom("validated", "revalidated")

\* debugDataLayer(dataLayer, checkPoints), new Date() reading now
Debug ==
    /\ pc = "ready"
    /\ op = "debug"
    /\ debugResult' = debugDataLayer(dataLayer, checkPoints, now)
    /\ pc' = "debugged"
    /\ UNCHANGED <<op, dataLayer, schemaUri, strictMode, checkPoints, now,
                   schemaResult, tealiumResult, namingWarnings, result, guardResult, previous>>

\* the same call of debugDataLayer made again, at the same moment or later
DebugAgain ==
    /\ pc = "debugged"
    /\ op = "debug"
    /\ \E later \in Clocks :
         /\ later >= now
         /\ now' = later
         /\ debugResult' = debugDataLayer(dataLayer, checkPoints, later)
    /\ previous' = debugResult
    /\ pc' = "redebugged"
    /\ UNCHANGED <<op, dataLayer, schemaUri, strictMode, checkPoints,
                   schemaResult, tealiumResult, namingWarnings, result, guardResult>>

\* every type guard of types/guards.ts called on the value
AllGuards(value) ==
    [isRecord |-> isRecord(value),
     isString |-> isString(value),
     isNumber |-> isNumber(value),
     isBoolean |-> isBoolean(value),
     isArray |-> isArray(value),
     isStringArray |-> isStringArray(value),
     isPageData |-> isPageData(value),
     isUserData |-> isUserData(value),
     isEventData |-> isEventData(value),
     isProductData |-> isProductData(value),
     isProductDataArray |-> isProductDataArray(value),
     isTransactionData |-> isTransactionData(value),
     isHotelSearchData |-> isHotelSearchData(value),
     isHotelData |-> isHotelData(value),
     isRoomData |-> isRoomData(value),
     isBookingData |-> isBookingData(value),
     isGuestData |-> isGuestData(value),
     isTealiumDataLayer |-> isTealiumDataLayer(value)]

Guard ==
    /\ pc = "ready"
    /\ op = "guard"
    /\ guardResult' = AllGuards(dataLayer)
    /\ pc' = "guarded"
    /\ UNCHANGED <<op, dataLayer, schemaUri, strictMode, checkPoints, now,
                   schemaResult, tealiumResult, namingWarnings, result, debugResult, previous>>

Next == Validate \/ ValidateAgain \/ Debug \/ DebugAgain \/ Guard

Spec == Init /\ [][Next]_vars

----------------------------------------------------------------------------
(* Properties of validateDataLayer *)

\* the entries of list whose path is path
AtPath(list, path) == SelectSeq(list, LAMBDA x : x.path = path)

\* sub occurs in str
IsInfix(sub, str) ==
    \E i \in 0..(Len(str) - Len(sub)) : SubSeq(str, i + 1, i + Len(sub)) = sub

SchemaNotFoundChars == <<"S","c","h","e","m","a"," ","n","o","t"," ","f","o","u","n","d">>

\* the message contains "Schema not found"
MentionsSchemaNotFound(message) ==
    \/ message.fmt = "Schema not found: %s"
    \/ \E i \in 1..Len(message.args) : IsInfix(SchemaNotFoundChars, message.args[i])

\* C1: for every document (object or not), every schema id and both values of
\* strictMode, the result of validateDataLayer has isValid true exactly when
\* its errors are the empty list
C1_IsValidIffNoErrors ==
    pc = "validated" => (result.isValid <=> Len(result.errors) = 0)

\* C1 happens: a strict call whose only errors are promoted warnings
C1_Witness ==
    /\ pc = "validated"
    /\ strictMode
    /\ isRecord(dataLayer)
    /\ Len(schemaResult.errors) = 0
    /\ Len(tealiumResult.errors) = 0
    /\ Len(result.errors) > 0
    /\ ~result.isValid

\* C2 as stated: for every object document, an unregistered schema id gives
\* isValid false and exactly one error, whose message contains "Schema not found"
C2_ExactlyOneError ==
    (pc = "validated" /\ isRecord(dataLayer) /\ ~HasSchema(schemaUri))
        => /\ ~result.isValid
           /\ Len(result.errors) = 1
           /\ MentionsSchemaNotFound(result.errors[1].message)

\* C2 as amended: for every object document, an unregistered schema id gives
\* isValid false; the schema validator contributes exactly one error, the first
\* of the list, with message "Schema not found: <schema id>"; the errors after
\* it are the business-rule errors and, in strict mode, one error per warning
C2_SchemaNotFoundFirst ==
    (pc = "validated" /\ isRecord(dataLayer) /\ ~HasSchema(schemaUri))
        => /\ ~result.isValid
           /\ Len(schemaResult.errors) = 1
           /\ result.errors[1] = schemaResult.errors[1]
           /\ result.errors[1].message = Text("Schema not found: %s", <<schemaUri>>)
           /\ SubSeq(result.errors, 2, 1 + Len(tealiumResult.errors)) = tealiumResult.errors
           /\ Len(result.errors) =
                1 + Len(tealiumResult.errors)
                + (IF strictMode THEN Len(tealiumResult.warnings) + Len(namingWarnings) ELSE 0)

\* C2 happens: an unregistered schema id and a second error next to the first
C2_Witness ==
    /\ pc = "validated"
    /\ isRecord(dataLayer)
    /\ schemaUri = D.unknownUri
    /\ ~strictMode
    /\ Len(result.errors) = 2
    /\ result.errors[2].path = Path2(S.page, S.pageName)

\* page.pageName of the document: undefined when page or pageName is missing
PageNameOf(dl) == Prop(Get(dl, S.page), S.pageName)

\* C3: for every object document in which page.pageName is missing or is the
\* empty string, every schema id and both values of strictMode, the errors of
\* validateDataLayer include one whose path is exactly "page.pageName"
C3_PageNameError ==
    (/\ pc = "validated"
     /\ isRecord(dataLayer)
     /\ PageNameOf(dataLayer) \in {Undefined, Str(<<>>)})
        => Len(AtPath(result.errors, Path2(S.page, S.pageName))) > 0

\* C4: the strict errors are the non-strict errors followed by one error per
\* non-strict warning, in warning order, with that warning's path and message
\* and its suggestion as expected when it has one; the strict warnings are empty
C4_StrictIsPostProcessing ==
    (pc = "validated" /\ strictMode)
        => LET lenient == validateDataLayer(dataLayer, schemaUri, FALSE)
               n == Len(lenient.errors)
           IN  /\ result.warnings = <<>>
               /\ Len(result.errors) = n + Len(lenient.warnings)
               /\ \A i \in 1..n : result.errors[i] = lenient.errors[i]
               /\ \A i \in 1..Len(lenient.warnings) :
                    LET warning == lenient.warnings[i]
                        error == result.errors[n + i]
                    IN  /\ error.path = warning.path
                        /\ error.message = warning.message
                        /\ ("suggestion" \in DOMAIN warning
                              => "expected" \in DOMAIN error
                                 /\ error.expected = warning.suggestion)
                        /\ ("suggestion" \notin DOMAIN warning
                              => DOMAIN error = {"path", "message"})

\* C4 happens: a strict call with errors of its own and warnings to promote
C4_Witness ==
    /\ pc = "validated"
    /\ strictMode
    /\ isRecord(dataLayer)
    /\ Len(schemaResult.errors) > 0
    /\ Len(tealiumResult.warnings) > 0
    /\ Len(namingWarnings) > 0
    /\ Len(result.errors) > Len(schemaResult.errors) + Len(tealiumResult.errors)

\* the path and message of every entry, in order
PathsAndMessages(list) == [i \in 1..Len(list) |-> <<list[i].path, list[i].message>>]

\* C5: the returned errors are the schema validator's errors, then the
\* business-rule errors, then (strict mode only) the promoted warnings; the
\* non-strict warnings are the schema warnings, then the business-rule
\* warnings, then the naming warnings; every sub-list keeps its order
C5_MergeOrder ==
    (pc = "validated" /\ isRecord(dataLayer))
        => LET ownErrors == schemaResult.errors \o tealiumResult.errors
               ownWarnings == schemaResult.warnings \o tealiumResult.warnings \o namingWarnings
           IN  /\ SubSeq(result.errors, 1, Len(ownErrors)) = ownErrors
               /\ ~strictMode => /\ Len(result.errors) = Len(ownErrors)
                                 /\ result.warnings = ownWarnings
               /\ strictMode => PathsAndMessages(SubSeq(result.errors, Len(ownErrors) + 1,
                                                        Len(result.errors)))
                                = PathsAndMessages(ownWarnings)

\* C5 happens: a call where schema errors, rule errors, rule warnings and naming
\* warnings all occur
C5_Witness ==
    /\ pc = "validated"
    /\ ~strictMode
    /\ isRecord(dataLayer)
    /\ Len(schemaResult.errors) > 0
    /\ Len(tealiumResult.errors) > 0
    /\ Len(tealiumResult.warnings) > 0
    /\ Len(namingWarnings) > 0

\* page.currency of the document: undefined when page or currency is missing
PageCurrencyOf(dl) == Prop(Get(dl, S.page), S.currency)

\* the value, as the text a pattern is matched against, is three uppercase
\* ASCII letters
IsThreeUppercase(value) ==
    /\ value # Undefined
    /\ Len(ToStr(value)) = 3
    /\ \A i \in 1..3 : ToStr(value)[i] \in UpperSet

\* C6: for every object document whose page.currency is three uppercase ASCII
\* letters, non-strict validateDataLayer returns no warning with path
\* "page.currency"; for every object document whose page.currency is present
\* and is anything else, it returns a warning with exactly that path
C6_CurrencyWarning ==
    (pc = "validated" /\ ~strictMode /\ isRecord(dataLayer))
        => LET currency == PageCurrencyOf(dataLayer)
               found == AtPath(result.warnings, Path2(S.page, S.currency))
           IN  /\ IsThreeUppercase(currency) => Len(found) = 0
               /\ (currency # Undefined /\ ~IsThreeUppercase(currency)) => Len(found) > 0

----------------------------------------------------------------------------
(* Properties of the business rules *)

BookingOf(dl) == Get(dl, S.booking)

\* the nights-mismatch warnings among warnings
NightsWarnings(warnings) ==
    SelectSeq(warnings,
              LAMBDA w : /\ w.path = Path2(S.booking, S.bookingNights)
                         /\ w.message.fmt
                              = "bookingNights (%s) doesn't match date range (%s nights)")

\* ceil((checkOut - checkIn) / 1 day) as text: the least n with n days >= the
\* difference, NaN when a date is none
NightsBetween(checkIn, checkOut) ==
    LET from == DateTime(checkIn)
        to == DateTime(checkOut)
    IN  IF IsNaN(from) \/ IsNaN(to) THEN NaN
        ELSE Num(CHOOSE n \in (0 - 400)..400 :
                    /\ n * MinutesPerDay >= to.n - from.n
                    /\ (n - 1) * MinutesPerDay < to.n - from.n)

\* C7: for every document with a booking the business rules run on, there is a
\* nights-mismatch warning at "booking.bookingNights" iff bookingNights differs
\* from ceil((checkOut - checkIn) / 1 day), there is at most one, and its
\* suggestion names the computed value; 2024-03-10 to 2024-03-15 with 5 nights
\* gives none, with 4 nights gives exactly one, suggesting 5
C7_BookingNights ==
    (/\ pc = "validated"
     /\ isTealiumDataLayer(dataLayer)
     /\ BookingOf(dataLayer) # Undefined)
        => LET booking == BookingOf(dataLayer)
               checkIn == Get(booking, S.bookingCheckIn).s
               checkOut == Get(booking, S.bookingCheckOut).s
               nights == Get(booking, S.bookingNights)
               computed == NightsBetween(checkIn, checkOut)
               found == NightsWarnings(tealiumResult.warnings)
           IN  /\ Len(found) <= 1
               /\ Len(found) = 1 <=> nights # computed
               /\ Len(found) = 1
                    => found[1].suggestion
                         = Text("Set bookingNights to %s", <<NumberToString(computed)>>)
               /\ ~strictMode => NightsWarnings(result.warnings) = found
               /\ (checkIn = D.mar10 /\ checkOut = D.mar15 /\ nights = Num(5))
                    => Len(found) = 0
               /\ (checkIn = D.mar10 /\ checkOut = D.mar15 /\ nights = Num(4))
                    => /\ Len(found) = 1
                       /\ found[1].suggestion = Text("Set bookingNights to %s", <<<<"5">>>>)

\* C7 happens: the stay ends at noon of the fifth day and bookingNights is 4
C7_Witness ==
    /\ pc = "validated"
    /\ isTealiumDataLayer(dataLayer)
    /\ BookingOf(dataLayer) # Undefined
    /\ Get(BookingOf(dataLayer), S.bookingCheckIn) = Str(D.mar10)
    /\ Get(BookingOf(dataLayer), S.bookingCheckOut) = Str(D.mar14noon)
    /\ Get(BookingOf(dataLayer), S.bookingNights) = Num(4)
    /\ Len(NightsWarnings(tealiumResult.warnings)) = 1
    /\ NightsWarnings(tealiumResult.warnings)[1].suggestion
         = Text("Set bookingNights to %s", <<<<"5">>>>)

----------------------------------------------------------------------------
(* Properties of the naming checker *)

RECURSIVE KeysOf(_, _)
RECURSIVE KeysFrom(_, _, _)
\* every key of the record and of the records nested in it, with its path
KeysFrom(entries, path, i) ==
    IF i > Len(entries) THEN <<>>
    ELSE LET key == entries[i][1]
             value == entries[i][2]
             here == IF path = <<>> THEN key ELSE path \o <<".">> \o key
         IN  <<[key |-> key, path |-> here]>>
             \o (IF isRecord(value) THEN KeysOf(value, here) ELSE <<>>)
             \o KeysFrom(entries, path, i + 1)

KeysOf(record, path) == KeysFrom(record.e, path, 1)

\* the "not in camelCase" warnings among warnings
CamelCaseWarnings(warnings) ==
    SelectSeq(warnings, LAMBDA w : w.message.fmt = "Variable name \"%s\" is not in camelCase")

\* a lowercase letter, then letters and digits
IsLowerThenAlnum(key) ==
    /\ Len(key) >= 1
    /\ key[1] \in LowerSet
    /\ \A i \in 2..Len(key) : key[i] \in LowerSet \cup UpperSet \cup DigitSet

DomainPrefixes ==
    {S.page, S.user, S.event, S.product, S.transaction, S.search, S.hotel, S.room,
     S.booking, S.guest}

\* the camelCase rewrite of the keys the documents use that are not camelCase
Rewritten ==
    {<<D.Hotel_Name, S.hotelName>>,
     <<D.first_name, <<"f","i","r","s","t","N","a","m","e">> >>,
     <<D.X, <<"x">> >>,
     <<D.ID, <<"i","D">> >>,
     <<D.URL, <<"u","R","L">> >>,
     <<D.keyNull, S.null>>,
     <<D.underPrivate, <<"p","r","i","v","a","t","e">> >>,
     <<D.a_b, <<"a","B">> >>,
     <<D.trailing_, <<"t","r","a","i","l","i","n","g">> >>,
     <<D.Page, S.page>>,
     <<<<>>, <<>> >>}

\* C8: for every key at every depth of nested records, checkNamingConventions
\* gives a "not in camelCase" warning iff the key is not a lowercase letter
\* followed by letters and digits and is not one of the ten domain prefixes;
\* the suggestion is the camelCase rewrite of the key: "Hotel_Name" is warned
\* with "hotelName", "hotel" is not warned
C8_CamelCaseWarnings ==
    (pc = "validated" /\ isRecord(dataLayer))
        => LET keys == KeysOf(dataLayer, <<>>)
               found == CamelCaseWarnings(namingWarnings)
               expected == SelectSeq(keys, LAMBDA k : /\ ~IsLowerThenAlnum(k.key)
                                                      /\ k.key \notin DomainPrefixes)
           IN  /\ Len(found) = Len(expected)
               /\ \A i \in 1..Len(expected) :
                    /\ found[i].path = expected[i].path
                    /\ found[i].message.args = <<expected[i].key>>
                    /\ \E pair \in Rewritten :
                         /\ pair[1] = expected[i].key
                         /\ found[i].suggestion
                              = Text("Consider renaming to \"%s\"", <<pair[2]>>)
               /\ \A i \in 1..Len(keys) :
                    keys[i].key = S.hotel => Len(AtPath(found, keys[i].path)) = 0

\* C8 happens: "Hotel_Name" and "hotel" occur below the top level of one
\* document, the first warned with "hotelName"
C8_Witness ==
    /\ pc = "validated"
    /\ isRecord(dataLayer)
    /\ \E i \in 1..Len(namingWarnings) :
         /\ namingWarnings[i].message.args = <<D.Hotel_Name>>
         /\ Len(namingWarnings[i].path) > Len(D.Hotel_Name)
         /\ namingWarnings[i].suggestion = Text("Consider renaming to \"%s\"", <<S.hotelName>>)
    /\ \E i \in 1..Len(KeysOf(dataLayer, <<>>)) : KeysOf(dataLayer, <<>>)[i].key = S.hotel

----------------------------------------------------------------------------
(* Properties of debugDataLayer *)

\* C9: for every document with booking.bookingId present and no top-level hotel
\* key, whatever the other booking fields and the checkpoints, debugDataLayer
\* returns an issue with severity "error" and path "hotel"
C9_MissingHotelIssue ==
    (/\ pc = "debugged"
     /\ isRecord(dataLayer)
     /\ Prop(Get(dataLayer, S.booking), S.bookingId) # Undefined
     /\ Get(dataLayer, S.hotel) = Undefined)
        => \E i \in 1..Len(debugResult.issues) :
             /\ debugResult.issues[i].severity = "error"
             /\ debugResult.issues[i].path = S.hotel

----------------------------------------------------------------------------
(* Properties of the PII scan *)

RECURSIVE LastKey(_)
\* the part of the path after its last dot
LastKey(path) ==
    IF \E i \in 1..Len(path) : path[i] = "."
    THEN LastKey(Tail(path))
    ELSE path

PiiWarnings(warnings) ==
    SelectSeq(warnings, LAMBDA w : w.message.fmt = "Possible %s detected in data layer")

SafeKeys == {S.userId, S.visitorId, S.bookingId, S.transactionId}

\* the record or a record nested in it has a safe key whose value is one of
\* the PII strings
RECURSIVE HasSafeKeyWithPii(_)
HasSafeKeyWithPii(record) ==
    \E i \in 1..Len(record.e) :
        \/ /\ record.e[i][1] \in SafeKeys
           /\ record.e[i][2] \in {Str(D.email), Str(D.phone), Str(D.card)}
        \/ /\ isRecord(record.e[i][2])
           /\ HasSafeKeyWithPii(record.e[i][2])

\* C10: no PII warning is at a path whose last key is userId, visitorId,
\* bookingId or transactionId, at any depth, also when the value of that key
\* matches the email, phone or card pattern
C10_SafeKeysNeverFlagged ==
    (pc = "validated" /\ isRecord(dataLayer))
        => \A w \in {tealiumResult.warnings[i] : i \in 1..Len(tealiumResult.warnings)}
                    \cup {result.warnings[i] : i \in 1..Len(result.warnings)}
                    \cup {result.errors[i] : i \in 1..Len(result.errors)} :
             w.message.fmt = "Possible %s detected in data layer"
                => LastKey(w.path) \notin SafeKeys

\* C10 happens: the scan reports PII in a document where a safe key below the
\* top level holds a PII string
C10_Witness ==
    /\ pc = "validated"
    /\ isTealiumDataLayer(dataLayer)
    /\ \E i \in 1..Len(dataLayer.e) :
         /\ isRecord(dataLayer.e[i][2])
         /\ HasSafeKeyWithPii(dataLayer.e[i][2])
    /\ Len(PiiWarnings(tealiumResult.warnings)) > 0

----------------------------------------------------------------------------
(* Properties of the lists debugDataLayer returns *)

\* the index of the first entry of seq equal to x
FirstIndex(seq, x) == CHOOSE i \in 1..Len(seq) : seq[i] = x /\ \A j \in 1..(i - 1) : seq[j] # x

RECURSIVE CheckpointIssueCount(_, _, _)
\* how many issues the checkpoints from index i on push, one by one
CheckpointIssueCount(dl, cps, i) ==
    IF i > Len(cps) THEN 0
    ELSE Len(checkSpecificArea(dl, cps[i]).issues) + CheckpointIssueCount(dl, cps, i + 1)

\* C11: the recommendations debugDataLayer returns hold no two equal strings
\* and keep the order of first occurrence; the issues are never deduplicated:
\* every issue every check pushed is there, equal ones included
C11_RecommendationsDeduplicated ==
    pc = "debugged"
        => LET recs == debugResult.recommendations
           IN  /\ \A i, j \in 1..Len(recs) : i # j => recs[i] # recs[j]
               /\ isTealiumDataLayer(dataLayer)
                    => LET pushed == DebugRecommendations(dataLayer, checkPoints, now)
                       IN  /\ {recs[i] : i \in 1..Len(recs)}
                                = {pushed[i] : i \in 1..Len(pushed)}
                           /\ \A i, j \in 1..Len(recs) :
                                i < j => FirstIndex(pushed, recs[i]) < FirstIndex(pushed, recs[j])
                           /\ Len(debugResult.issues)
                                = Len(checkEmptyValues(dataLayer, <<>>))
                                  + Len(checkEventTracking(dataLayer).issues)
                                  + Len(checkBookingFunnel(dataLayer, now))
                                  + CheckpointIssueCount(dataLayer, checkPoints, 1)

\* C11 happens: a checkpoint given twice pushed the same recommendation twice
\* and the same issue twice; the issue is returned twice
C11_Witness ==
    /\ pc = "debugged"
    /\ isTealiumDataLayer(dataLayer)
    /\ Len(DebugRecommendations(dataLayer, checkPoints, now)) > Len(debugResult.recommendations)
    /\ \E i, j \in 1..Len(debugResult.issues) :
         i # j /\ debugResult.issues[i] = debugResult.issues[j]

----------------------------------------------------------------------------
(* The entry points *)

\* C12: for an input that is not a record validateDataLayer returns isValid
\* false, exactly one error with path "/" and message "Data layer must be an
\* object", no warnings, and neither the schema validator nor the rule
\* validator nor the naming checker has run, whatever the schema id and the mode
C12_NonRecordShortCircuits ==
    (pc = "validated" /\ ~isRecord(dataLayer))
        => /\ result.isValid = FALSE
           /\ Len(result.errors) = 1
           /\ result.errors[1].path = <<"/">>
           /\ result.errors[1].message = Lit("Data layer must be an object")
           /\ result.warnings = <<>>
           /\ schemaResult = Undefined
           /\ tealiumResult = Undefined
           /\ namingWarnings = Undefined

\* C12 happens: an array validated in strict mode against an unknown schema id
C12_Witness ==
    /\ pc = "validated"
    /\ isArray(dataLayer)
    /\ strictMode
    /\ schemaUri = D.unknownUri
    /\ Len(result.errors) = 1

\* the result debugDataLayer returns when it stops before its checks
ShortCircuited(res) ==
    /\ Len(res.issues) = 1
    /\ res.issues[1].severity = "error"
    /\ res.issues[1].path = <<"/">>
    /\ res.dataLayerSnapshot = Obj(<<>>)
    /\ res.missingVariables = <<>>
    /\ res.typeMismatches = <<>>

\* C13: debugDataLayer short-circuits (one issue, severity error at path "/",
\* empty snapshot, no missing variables, no type mismatches) exactly when the
\* document is not a record; for every record the snapshot is the document
C13_ShortCircuitIffNotRecord ==
    pc = "debugged"
        => /\ ShortCircuited(debugResult) <=> ~isRecord(dataLayer)
           /\ isRecord(dataLayer) => debugResult.dataLayerSnapshot = dataLayer

----------------------------------------------------------------------------
(* The same call made twice *)

\* the one issue of debugDataLayer that compares the document with new Date()
PastCheckIn ==
    Issue("warning", Path2(S.booking, S.bookingCheckIn), Lit("Check-in date is in the past"),
          Lit("Verify date is correct or update booking status"))

RECURSIVE Without(_, _)
\* seq.filter((x) => x !== entry), by value
Without(seq, entry) ==
    IF seq = <<>> THEN <<>>
    ELSE (IF Head(seq) = entry THEN <<>> ELSE <<Head(seq)>>) \o Without(Tail(seq), entry)

\* a debug result with the past check-in warning left out of its issues
ClockFree(res) == [res EXCEPT !.issues = Without(res.issues, PastCheckIn)]

\* C14 as stated: two calls with equal document and options return equal
\* results, whatever the moment of each call, for both tools
C14_Deterministic ==
    /\ pc = "revalidated" => result = previous
    /\ pc = "redebugged" => debugResult = previous

\* C14: two calls of validateDataLayer with equal arguments return equal
\* results; two calls of debugDataLayer with equal arguments return results
\* that are equal up to the warning "Check-in date is in the past" at
\* booking.bookingCheckIn, which depends on the moment of the call, and are
\* equal when the document has no booking
C14_DeterministicUpToClock ==
    /\ pc = "revalidated" => result = previous
    /\ pc = "redebugged"
         => /\ ClockFree(debugResult) = ClockFree(previous)
            /\ (isRecord(dataLayer) /\ Get(dataLayer, S.booking) = Undefined)
                  => debugResult = previous

\* C14 happens: the second call of debugDataLayer, made later, returned a
\* result the first call did not return
C14_Witness ==
    /\ pc = "redebugged"
    /\ debugResult # previous
    /\ Len(debugResult.issues) > Len(previous.issues)

----------------------------------------------------------------------------
(* Validity in non-strict mode *)

\* {page: {pageName: "Home"}} and {page: {pageName: "Home", pageType: "home"}}
HomePages ==
    {Make(<<<<S.page, Make(<<<<S.pageName, Str(D.Home)>>>>)>>>>),
     Make(<<<<S.page, Make(<<<<S.pageName, Str(D.Home)>>, <<S.pageType, Str(D.home)>>>>)>>>>)}

\* C16: in non-strict mode a record document is valid iff the schema validator
\* and the rule validator produced no error, whatever the warnings; the page
\* documents with pageName "Home", with or without pageType, are valid against
\* the standard schema
C16_WarningsNeverInvalidate ==
    (pc = "validated" /\ ~strictMode /\ isRecord(dataLayer))
        => /\ result.isValid <=> (schemaResult.errors = <<>> /\ tealiumResult.errors = <<>>)
           /\ (dataLayer \in HomePages /\ schemaUri = S.standardUri) => result.isValid

\* C16 happens: a document validated in non-strict mode is valid and has warnings
C16_Witness ==
    /\ pc = "validated"
    /\ ~strictMode
    /\ isRecord(dataLayer)
    /\ result.isValid
    /\ Len(result.warnings) > 0

----------------------------------------------------------------------------
(* The type guards *)

\* fields of the domain interfaces of types/index.ts, with the guard of their
\* section and their declared type
KnownFields ==
    {[guard |-> "isPageData", key |-> S.currency, type |-> S.string],
     [guard |-> "isUserData", key |-> S.loyaltyPoints, type |-> S.number],
     [guard |-> "isUserData", key |-> S.isLoggedIn, type |-> S.boolean],
     [guard |-> "isEventData", key |-> S.eventCategory, type |-> S.string],
     [guard |-> "isProductData", key |-> S.productPrice, type |-> S.number],
     [guard |-> "isTransactionData", key |-> S.transactionTotal, type |-> S.number],
     [guard |-> "isHotelSearchData", key |-> S.searchAdults, type |-> S.number],
     [guard |-> "isRoomData", key |-> S.roomCapacity, type |-> S.number],
     [guard |-> "isBookingData", key |-> S.bookingNights, type |-> S.number],
     [guard |-> "isBookingData", key |-> S.bookingRooms, type |-> S.number],
     [guard |-> "isGuestData", key |-> S.guestLoyaltyPoints, type |-> S.number]}

\* value is of the declared type, NaN being no number
HasType(value, type) == TypeOf(value) = type /\ ~IsNaN(value)

\* C17: isRecord is true exactly for plain objects (false for null, undefined,
\* arrays and primitives), isNumber is false for NaN, and a composite predicate
\* is true only of a record whose known fields all have their declared type,
\* NaN being no number; isTealiumDataLayer is true only of a record whose
\* sections satisfy this
C17_TypePredicates ==
    pc = "guarded"
        => /\ guardResult.isRecord <=> dataLayer.t = "object"
           /\ IsNaN(dataLayer) => ~guardResult.isNumber
           /\ \A f \in KnownFields :
                guardResult[f.guard]
                    => /\ isRecord(dataLayer)
                       /\ Get(dataLayer, f.key) # Undefined
                            => HasType(Get(dataLayer, f.key), f.type)
           /\ guardResult.isTealiumDataLayer
                => /\ isRecord(dataLayer)
                   /\ \A f \in {[key |-> S.page, field |-> S.currency, type |-> S.string],
                                [key |-> S.booking, field |-> S.bookingNights,
                                 type |-> S.number]} :
                        Prop(Get(dataLayer, f.key), f.field) # Undefined
                            => HasType(Prop(Get(dataLayer, f.key), f.field), f.type)

----------------------------------------------------------------------------
(* The business rules *)

RECURSIVE StringLeavesFrom(_, _, _)
\* every string value of the record and of the records nested in it, with its path
StringLeavesFrom(entries, path, i) ==
    IF i > Len(entries) THEN <<>>
    ELSE LET key == entries[i][1]
             value == entries[i][2]
             here == IF path = <<>> THEN key ELSE path \o <<".">> \o key
         IN  (IF TypeOf(value) = S.string THEN <<[path |-> here, value |-> value.s]>>
              ELSE IF isRecord(value) THEN StringLeavesFrom(value.e, here, 1)
              ELSE <<>>)
             \o StringLeavesFrom(entries, path, i + 1)

\* the errors whose message mentions a stringified null/undefined
StringifiedErrors(errors) ==
    SelectSeq(errors, LAMBDA e :
        e.message.fmt = "String value \"%s\" looks like a stringified null/undefined")

\* C18: for every object document and every string leaf of it, at any depth,
\* validateDataLayer returns an error at the leaf's path mentioning a
\* stringified null/undefined iff the lowercased value of the leaf is
\* "undefined", "null" or "nan"
C18_StringifiedNulls ==
    (pc = "validated" /\ isRecord(dataLayer))
        => LET leaves == StringLeavesFrom(dataLayer.e, <<>>, 1)
           IN  \A i \in 1..Len(leaves) :
                 (ToLowerCase(leaves[i].value) \in {S.undefined, S.null, <<"n","a","n">>})
                    <=> AtPath(StringifiedErrors(result.errors), leaves[i].path) # <<>>

\* the place of an error among the ordered checks of validateTealiumRules
ErrorRank(error) ==
    CASE error.message.fmt = "page.pageName is required and must not be empty" -> 1
      [] error.message.fmt = "Value is undefined - this may cause tracking issues" -> 2
      [] error.message.fmt = "Value is undefined - remove or set to null" -> 2
      [] error.message.fmt = "String value \"%s\" looks like a stringified null/undefined" -> 3
      [] error.message.fmt = "Check-out date must be after check-in date" -> 4
      [] error.message.fmt = "bookingCurrency must not be empty" -> 5
      [] OTHER -> 0

\* the place of a warning among the ordered checks of validateTealiumRules
WarningRank(warning) ==
    CASE warning.message.fmt = "Currency \"%s\" should be ISO 4217 format" -> 1
      [] warning.message.fmt = "Language \"%s\" should be ISO format" -> 2
      [] warning.message.fmt = "Possible %s detected in data layer" -> 3
      [] warning.message.fmt = "Price value is a string, should be a number" -> 4
      [] warning.message.fmt = "bookingNights (%s) doesn't match date range (%s nights)" -> 5
      [] warning.message.fmt = "Star rating %s is outside normal range (1-5)" -> 6
      [] warning.message.fmt = "Date \"%s\" is not in ISO format" -> 7
      [] OTHER -> 0

ErrorRanks(errors) == {ErrorRank(errors[i]) : i \in 1..Len(errors)}
WarningRanks(warnings) == {WarningRank(warnings[i]) : i \in 1..Len(warnings)}

\* C19: one call of validateTealiumRules runs every check whatever the earlier
\* ones found: each rule the document breaks has its finding, the errors come
\* in the order pageName, undefined values, stringified nulls, booking date
\* order, booking currency, and the warnings in the order currency, language,
\* PII, price as string, booking nights, star rating, date format
C19_RulesAccumulated ==
    (pc = "validated" /\ isTealiumDataLayer(dataLayer))
        => LET errors == tealiumResult.errors
               warnings == tealiumResult.warnings
               page == Get(dataLayer, S.page)
               booking == Get(dataLayer, S.booking)
               hotel == Get(dataLayer, S.hotel)
           IN  /\ \A i, j \in 1..Len(errors) :
                    i < j => (0 < ErrorRank(errors[i]) /\ ErrorRank(errors[i]) <= ErrorRank(errors[j]))
               /\ \A i, j \in 1..Len(warnings) :
                    i < j => (0 < WarningRank(warnings[i])
                              /\ WarningRank(warnings[i]) <= WarningRank(warnings[j]))
               /\ 1 \in ErrorRanks(errors)
                    <=> Prop(page, S.pageName) \in {Undefined, Str(<<>>)}
               /\ Len(SelectSeq(errors, LAMBDA e : ErrorRank(e) = 2))
                    = Len(checkForUndefinedValues(dataLayer, <<>>))
               /\ Len(SelectSeq(errors, LAMBDA e : ErrorRank(e) = 3))
                    = Len(checkForStringifiedNulls(dataLayer, <<>>))
               /\ 4 \in ErrorRanks(errors)
                    <=> /\ booking # Undefined
                        /\ NumLe(DateTime(Get(booking, S.bookingCheckOut).s),
                                 DateTime(Get(booking, S.bookingCheckIn).s))
               /\ 5 \in ErrorRanks(errors)
                    <=> (booking # Undefined /\ Get(booking, S.bookingCurrency) = Str(<<>>))
               /\ 1 \in WarningRanks(warnings)
                    <=> /\ Prop(page, S.currency) # Undefined
                        /\ ~IsThreeUppercase(Prop(page, S.currency))
               /\ 2 \in WarningRanks(warnings)
                    <=> /\ Prop(page, S.language) # Undefined
                        /\ ~TestLanguagePattern(ToStr(Prop(page, S.language)))
               /\ Len(SelectSeq(warnings, LAMBDA w : WarningRank(w) = 3))
                    = Len(checkForPII(dataLayer, <<>>))
               /\ Len(SelectSeq(warnings, LAMBDA w : WarningRank(w) = 4))
                    = Len(checkPriceValues(dataLayer))
               /\ 5 \in WarningRanks(warnings)
                    <=> /\ booking # Undefined
                        /\ \/ IsNaN(Get(booking, S.bookingNights))
                           \/ Get(booking, S.bookingNights) # ExpectedNights(booking)
               /\ 6 \in WarningRanks(warnings)
                    <=> (hotel # Undefined /\ validateHotelData(hotel) # <<>>)
               /\ Len(SelectSeq(warnings, LAMBDA w : WarningRank(w) = 7))
                    = Len(checkDateFormats(dataLayer))

\* C19 happens: one document broke every rule and got every finding, the five
\* kinds of error and the seven kinds of warning
C19_Witness ==
    /\ pc = "validated"
    /\ isTealiumDataLayer(dataLayer)
    /\ ErrorRanks(tealiumResult.errors) = 1..5
    /\ WarningRanks(tealiumResult.warnings) = 1..7

\* C20 as stated: for every object document that fails isTealiumDataLayer the
\* errors of validateDataLayer are exactly the schema validator's errors, its
\* non-strict warnings exactly the naming checker's warnings and its
\* suggestions exactly the schema validator's suggestions
C20_OnlySchemaErrors ==
    (pc = "validated" /\ isRecord(dataLayer) /\ ~isTealiumDataLayer(dataLayer))
        => /\ result.errors = schemaResult.errors
           /\ ~strictMode => result.warnings = namingWarnings
           /\ result.suggestions = schemaResult.suggestions

\* C20: for every object document that fails isTealiumDataLayer the rule
\* validator does not run and its results are empty: in non-strict mode the
\* errors are exactly the schema validator's errors and the warnings exactly
\* the naming checker's warnings (the schema validator has none); in strict
\* mode the schema validator's errors are followed by one error per naming
\* warning and the warnings are empty; the suggestions are the schema
\* validator's in both modes
C20_RulesSkippedOutsideDomainShape ==
    (pc = "validated" /\ isRecord(dataLayer) /\ ~isTealiumDataLayer(dataLayer))
        => /\ tealiumResult = EmptyRules
           /\ schemaResult.warnings = <<>>
           /\ result.errors
                = schemaResult.errors
                  \o (IF strictMode THEN PromoteWarnings(namingWarnings) ELSE <<>>)
           /\ result.warnings = (IF strictMode THEN <<>> ELSE namingWarnings)
           /\ result.suggestions = schemaResult.suggestions

\* C20 happens: a record that fails isTealiumDataLayer and breaks the pageName
\* rule was validated in strict mode; its naming warning became an error
C20_Witness ==
    /\ pc = "validated"
    /\ strictMode
    /\ isRecord(dataLayer)
    /\ ~isTealiumDataLayer(dataLayer)
    /\ Prop(Get(dataLayer, S.page), S.pageName) = Undefined
    /\ namingWarnings # <<>>
    /\ Len(result.errors) > Len(schemaResult.errors)

----------------------------------------------------------------------------
(* The paths of the findings *)

\* the first segment name of a path: its characters before the first "." or "["
FirstSegment(path) ==
    LET stops == {i \in 1..Len(path) : path[i] \in {".", "["}}
    IN  IF stops = {} THEN path
        ELSE SubSeq(path, 1, (CHOOSE i \in stops : \A j \in stops : i <= j) - 1)

\* "/" or segment names separated by single dots, none empty and none holding "/"
IsDocumentPath(path) ==
    \/ path = <<"/">>
    \/ /\ Len(path) > 0
       /\ \A i \in 1..Len(path) : path[i] # "/"
       /\ path[1] # "." /\ path[Len(path)] # "."
       /\ \A i \in 1..(Len(path) - 1) : ~(path[i] = "." /\ path[i + 1] = ".")

\* the path starts at a key of the document or at one of its expected sections
AddressesDocument(doc, path) ==
    \/ path = <<"/">>
    \/ FirstSegment(path) \in DomainPrefixes \cup {S.products}
    \/ isRecord(doc) /\ \E i \in 1..Len(doc.e) : doc.e[i][1] = FirstSegment(path)

\* the paths of a list of findings
PathsOf(list) == {list[i].path : i \in 1..Len(list)}

\* C21: every path of every error and warning validateDataLayer returns and of
\* every issue and type mismatch debugDataLayer returns is "/" or a
\* dot-separated sequence of segment names that addresses a location of the
\* document, existing or expected
C21_PathFormat ==
    /\ pc = "validated"
         => \A path \in PathsOf(result.errors) \cup PathsOf(result.warnings) :
                IsDocumentPath(path) /\ AddressesDocument(dataLayer, path)
    /\ pc = "debugged"
         => \A path \in PathsOf(debugResult.issues) \cup PathsOf(debugResult.typeMismatches) :
                IsDocumentPath(path) /\ AddressesDocument(dataLayer, path)

----------------------------------------------------------------------------
(* The booking rules *)

\* the errors of the list with the path booking.<field>
BookingErrors(errors, field) == AtPath(errors, Path2(S.booking, field))

PriceFields ==
    {<<S.product, S.productPrice>>, <<S.transaction, S.transactionTotal>>,
     <<S.booking, S.bookingTotal>>, <<S.booking, S.bookingTaxes>>, <<S.booking, S.bookingFees>>}

\* the "price value is a string" warnings of the list at the path
PriceWarningsAt(warnings, path) ==
    SelectSeq(warnings, LAMBDA w :
        w.path = path /\ w.message.fmt = "Price value is a string, should be a number")

\* C23: for every object document validated in non-strict mode and each of the
\* five price fields present as a string, the result has exactly one "price
\* value is a string" warning at the field's path, suggesting the parsed
\* number, 0 when the string is not numeric
C23_PriceAsString ==
    (pc = "validated" /\ isRecord(dataLayer) /\ ~strictMode)
        => \A f \in PriceFields :
             LET value == Prop(Get(dataLayer, f[1]), f[2])
                 found == PriceWarningsAt(result.warnings, Path2(f[1], f[2]))
             IN  TypeOf(value) = S.string
                    => /\ Len(found) = 1
                       /\ found[1].suggestion
                            = Text("Convert \"%s\" to number: %s",
                                   <<value.s,
                                     IF IsNaN(parseFloat(value.s)) THEN <<"0">>
                                     ELSE NumberToString(parseFloat(value.s))>>)

----------------------------------------------------------------------------
(* The PII scan *)

RECURSIVE AllStringLeaves(_, _, _)
RECURSIVE LeavesOfEntries(_, _, _)
RECURSIVE LeavesOfItems(_, _, _, _)
\* every string in the value, through nested records and arrays, with its path
\* (name[index] for array elements) and the key it is found under
AllStringLeaves(value, path, key) ==
    IF TypeOf(value) = S.string THEN <<[path |-> path, key |-> key, value |-> value.s]>>
    ELSE IF isRecord(value) THEN LeavesOfEntries(value.e, path, 1)
    ELSE IF isArray(value) THEN LeavesOfItems(value.a, path, key, 1)
    ELSE <<>>

LeavesOfEntries(entries, path, i) ==
    IF i > Len(entries) THEN <<>>
    ELSE AllStringLeaves(entries[i][2], CurrentPath(path, entries[i][1]), entries[i][1])
         \o LeavesOfEntries(entries, path, i + 1)

LeavesOfItems(items, path, key, i) ==
    IF i > Len(items) THEN <<>>
    ELSE AllStringLeaves(items[i], path \o <<"[">> \o DigitsOf(i - 1) \o <<"]">>, key)
         \o LeavesOfItems(items, path, key, i + 1)

\* the PII categories a string matches
PiiCategories(str) ==
    (IF TestEmail(str) THEN {<<"e","m","a","i","l"," ","a","d","d","r","e","s","s">>} ELSE {})
    \cup (IF TestPhone(str) THEN {<<"p","h","o","n","e"," ","n","u","m","b","e","r">>} ELSE {})
    \cup (IF TestCard(str)
          THEN {<<"c","r","e","d","i","t"," ","c","a","r","d"," ","n","u","m","b","e","r">>}
          ELSE {})

\* C24: the PII scan of the business rules reaches every string leaf of the
\* document, inside nested records and inside arrays, whose key is not one of
\* the four skipped ids: each category the leaf matches has its warning at the
\* leaf's path, and no PII finding is among the rule validator's errors
C24_PiiScanCoverage ==
    (pc = "validated" /\ isTealiumDataLayer(dataLayer))
        => LET leaves == AllStringLeaves(dataLayer, <<>>, <<>>)
           IN  /\ \A i \in 1..Len(leaves) :
                    leaves[i].key \notin SafeKeys
                       => \A name \in PiiCategories(leaves[i].value) :
                            \E j \in 1..Len(tealiumResult.warnings) :
                               /\ tealiumResult.warnings[j].path = leaves[i].path
                               /\ tealiumResult.warnings[j].message
                                    = Text("Possible %s detected in data layer", <<name>>)
               /\ PiiWarnings(tealiumResult.errors) = <<>>

----------------------------------------------------------------------------
(* The scans of debugDataLayer *)

RECURSIVE AllValues(_, _)
RECURSIVE ValuesOfEntries(_, _, _)
RECURSIVE ValuesOfItems(_, _, _)
\* every value below the given one, through nested records and arrays, with
\* its path (name[index] for array elements)
AllValues(value, path) ==
    IF isRecord(value) THEN ValuesOfEntries(value.e, path, 1)
    ELSE IF isArray(value) THEN ValuesOfItems(value.a, path, 1)
    ELSE <<>>

ValuesOfEntries(entries, path, i) ==
    IF i > Len(entries) THEN <<>>
    ELSE LET here == CurrentPath(path, entries[i][1])
         IN  <<[path |-> here, value |-> entries[i][2]]>>
             \o AllValues(entries[i][2], here)
             \o ValuesOfEntries(entries, path, i + 1)

ValuesOfItems(items, path, i) ==
    IF i > Len(items) THEN <<>>
    ELSE LET here == path \o <<"[">> \o DigitsOf(i - 1) \o <<"]">>
         IN  <<[path |-> here, value |-> items[i]]>>
             \o AllValues(items[i], here)
             \o ValuesOfItems(items, path, i + 1)

\* the empty-value issues of the list at the path
EmptyValueIssuesAt(issues, path) ==
    SelectSeq(issues, LAMBDA x :
        /\ x.path = path
        /\ x.issue.fmt \in {"Empty string value", "Null value", "Empty array"})

\* the empty-value issue a value is to get, none for a value that is not empty
ExpectedEmptyIssue(value) ==
    IF value = Str(<<>>) THEN <<[severity |-> "warning", issue |-> Lit("Empty string value")]>>
    ELSE IF value = Null THEN <<[severity |-> "info", issue |-> Lit("Null value")]>>
    ELSE IF value = Arr(<<>>) THEN <<[severity |-> "info", issue |-> Lit("Empty array")]>>
    ELSE <<>>

\* C25: for every document debugDataLayer accepts and every value of it, at
\* every depth, inside arrays too, an empty string has exactly one warning
\* issue at its path, null exactly one info issue, an empty array exactly one
\* info issue, and any other value no empty-value issue
C25_EmptyValueScan ==
    (pc = "debugged" /\ isTealiumDataLayer(dataLayer))
        => LET values == AllValues(dataLayer, <<>>)
           IN  \A i \in 1..Len(values) :
                 LET found == EmptyValueIssuesAt(debugResult.issues, values[i].path)
                 IN  [k \in 1..Len(found) |->
                         [severity |-> found[k].severity, issue |-> found[k].issue]]
                       = ExpectedEmptyIssue(values[i].value)

\* C26: for every path of the expected-type table and every object document,
\* typeMismatches has the entry {path, expected, actual} when the value at the
\* path is present, not null and of another runtime type, and has no entry for
\* the path when the value is absent, null or of the expected type
C26_TypeMismatchScan ==
    (pc = "debugged" /\ isRecord(dataLayer))
        => \A i \in 1..Len(expectedTypes) :
             LET path == expectedTypes[i][1]
                 type == expectedTypes[i][2]
                 at == AtPath(AllValues(dataLayer, <<>>), path)
                 found == AtPath(debugResult.typeMismatches, path)
             IN  IF /\ at # <<>>
                    /\ at[1].value \notin {Null, Undefined}
                    /\ TypeOf(at[1].value) # type
                 THEN found = <<[path |-> path, expected |-> type,
                                 actual |-> TypeOf(at[1].value)]>>
                 ELSE found = <<>>

----------------------------------------------------------------------------
(* The checkpoints *)

\* the five names checkSpecificArea has a case for
RecognizedCheckpoints == {S.ecommerce, S.products, S.loyalty, S.guest, S.search}

\* the list without the names that are, in lowercase, none of the five
Recognized(cps) == SelectSeq(cps, LAMBDA name : ToLowerCase(name) \in RecognizedCheckpoints)

\* the list with every name in lowercase
LowerCased(cps) == [i \in 1..Len(cps) |-> ToLowerCase(cps[i])]

\* C27: checkpoint names are matched whatever their case and unknown names are
\* ignored: debugDataLayer returns with the list what it returns with the
\* recognized names of the list, and with the names in lowercase, and no issue
\* or recommendation holds a name of the list that is not recognized
C27_UnknownCheckpointsIgnored ==
    pc = "debugged"
        => /\ debugResult = debugDataLayer(dataLayer, Recognized(checkPoints), now)
           /\ debugResult = debugDataLayer(dataLayer, LowerCased(Recognized(checkPoints)), now)
           /\ \A i \in 1..Len(checkPoints) :
                ToLowerCase(checkPoints[i]) \notin RecognizedCheckpoints
                    => /\ \A k \in 1..Len(debugResult.issues) :
                            /\ ~IsInfix(checkPoints[i], debugResult.issues[k].path)
                            /\ \A a \in 1..Len(debugResult.issues[k].issue.args) :
                                 ~IsInfix(checkPoints[i], debugResult.issues[k].issue.args[a])
                       /\ \A k \in 1..Len(debugResult.recommendations) :
                            \A a \in 1..Len(debugResult.recommendations[k].args) :
                                 ~IsInfix(checkPoints[i], debugResult.recommendations[k].args[a])

\* C27 happens: the list holds "Products" and an unknown name, and the products
\* checkpoint reported an empty productId
C27_Witness ==
    /\ pc = "debugged"
    /\ checkPoints = <<D.Products, D.other>>
    /\ isTealiumDataLayer(dataLayer)
    /\ \E k \in 1..Len(debugResult.issues) :
         debugResult.issues[k].issue = Lit("Product has empty productId")

----------------------------------------------------------------------------
(* The two tools on the same booking *)

\* the business-rule validator reports the date order of the booking
RuleDateOrderError(errors) ==
    \E i \in 1..Len(errors) :
        /\ errors[i].path = Path2(S.booking, S.bookingCheckOut)
        /\ errors[i].message = Lit("Check-out date must be after check-in date")

\* the debug engine reports the date order of the booking
DebugDateOrderError(issues) ==
    \E i \in 1..Len(issues) :
        /\ issues[i].severity = "error"
        /\ issues[i].path = Path2(S.booking, S.bookingCheckOut)
        /\ issues[i].issue = Lit("Check-out date is before check-in date")

\* C28: on a booking whose check-in and check-out are the same moment the
\* business-rule validator reports the date-order error and the debug engine
\* reports no date-order issue; for every other pair of dates that parse, the
\* two report a date-order error for the same bookings
C28_DateOrderDisagreement ==
    (/\ pc \in {"validated", "debugged"}
     /\ isTealiumDataLayer(dataLayer)
     /\ BookingOf(dataLayer) # Undefined)
        => LET booking == BookingOf(dataLayer)
               checkIn == DateTime(Get(booking, S.bookingCheckIn).s)
               checkOut == DateTime(Get(booking, S.bookingCheckOut).s)
               byRules == RuleDateOrderError(IF pc = "validated" THEN tealiumResult.errors
                                             ELSE validateTealiumRules(dataLayer).errors)
               byDebug == DebugDateOrderError(IF pc = "debugged" THEN debugResult.issues
                                              ELSE debugDataLayer(dataLayer, <<>>, now).issues)
           IN  (~IsNaN(checkIn) /\ ~IsNaN(checkOut))
                  => IF checkIn.n = checkOut.n THEN byRules /\ ~byDebug
                     ELSE byRules <=> byDebug

\* C28 happens: a booking that begins and ends on the same day was debugged
\* without a date-order issue, and the business rules report its date order
C28_Witness ==
    /\ pc = "debugged"
    /\ isTealiumDataLayer(dataLayer)
    /\ BookingOf(dataLayer) # Undefined
    /\ Get(BookingOf(dataLayer), S.bookingCheckIn) = Get(BookingOf(dataLayer), S.bookingCheckOut)
    /\ ~DebugDateOrderError(debugResult.issues)
    /\ RuleDateOrderError(validateTealiumRules(dataLayer).errors)

----------------------------------------------------------------------------
(* The exemption of the known prefixes *)

\* the keys of keys that fail /^[a-z][a-zA-Z0-9]*$/
FailingKeys(keys) == SelectSeq(keys, LAMBDA k : ~IsLowerThenAlnum(k.key))

\* C29: the exemption of the known prefixes never changes an outcome: each of
\* the ten known prefixes matches the camelCase pattern, so the "not in
\* camelCase" warnings of a document are, in order, exactly its keys that fail
\* the pattern, and a key that is a known prefix is never warned
C29_PrefixExemptionIsIdle ==
    /\ Len(KNOWN_PREFIXES) = 10
    /\ \A i \in 1..Len(KNOWN_PREFIXES) : IsLowerThenAlnum(KNOWN_PREFIXES[i])
    /\ (pc = "validated" /\ isRecord(dataLayer))
         => LET found == CamelCaseWarnings(namingWarnings)
                failing == FailingKeys(KeysOf(dataLayer, <<>>))
            IN  /\ Len(found) = Len(failing)
                /\ \A i \in 1..Len(failing) :
                     /\ found[i].path = failing[i].path
                     /\ found[i].message.args = <<failing[i].key>>

\* C29 happens: one validated document has a key that is a known prefix and a
\* key that fails the pattern, and only the second is warned
C29_Witness ==
    /\ pc = "validated"
    /\ isRecord(dataLayer)
    /\ LET keys == KeysOf(dataLayer, <<>>)
           found == CamelCaseWarnings(namingWarnings)
       IN  /\ \E i \in 1..Len(keys) :
                /\ Includes(KNOWN_PREFIXES, keys[i].key)
                /\ Len(AtPath(found, keys[i].path)) = 0
           /\ \E i \in 1..Len(keys) :
                /\ ~IsLowerThenAlnum(keys[i].key)
                /\ Len(AtPath(found, keys[i].path)) = 1

----------------------------------------------------------------------------
(* Strict mode against non-strict mode *)

\* the result of the same call with strictMode false
NonStrictResult == validateDataLayer(dataLayer, schemaUri, FALSE)

\* C30: in strict mode a document is valid iff its non-strict validation has
\* neither errors nor warnings, so a single warning makes the strict result
\* invalid; the suggestions are the same in both modes
C30_StrictValidity ==
    (pc = "validated" /\ strictMode)
        => /\ result.isValid <=> (/\ NonStrictResult.errors = <<>>
                                  /\ NonStrictResult.warnings = <<>>)
           /\ Len(NonStrictResult.warnings) >= 1 => ~result.isValid
           /\ result.suggestions = NonStrictResult.suggestions

\* C30 happens: a strict validation of a document whose non-strict validation
\* is valid with exactly one warning, a naming warning, is invalid, its one
\* error that warning
C30_Witness ==
    /\ pc = "validated"
    /\ strictMode
    /\ isRecord(dataLayer)
    /\ Len(CamelCaseWarnings(namingWarnings)) = 1
    /\ NonStrictResult.isValid
    /\ NonStrictResult.errors = <<>>
    /\ Len(NonStrictResult.warnings) = 1
    /\ ~result.isValid
    /\ Len(result.errors) = 1
    /\ result.errors[1].path = NonStrictResult.warnings[1].path
    /\ result.errors[1].message = NonStrictResult.warnings[1].message

====
